---- MODULE Spec2Model ----
(***************************************************************************)
(* jstore: a typed tree (arrays, maps, visitable structs, leaves) that is  *)
(* serialized to / deserialized from JSON and persisted by jstore::tree.   *)
(* The codec operators follow include/jstore/serialization.hpp, the store  *)
(* actions follow include/jstore.hpp (tree::load, tree::save).             *)
(***************************************************************************)
EXTENDS Integers, Sequences, FiniteSets, TLC

(***************************************************************************)
(* Bounds                                                                  *)
(***************************************************************************)
\* longest array value that is enumerated as an input
MaxLen == 2

(***************************************************************************)
(* nlohmann::json values: a tag and a payload                              *)
(***************************************************************************)
EmptyMap == [k \in {} |-> 0]

JNull == <<"null", 0>>
JBool(b) == <<"boolean", b>>
JInt(n) == <<"number", n>>
JStr(s) == <<"string", s>>
JArr(s) == <<"array", s>>
JObj(f) == <<"object", f>>

is_null(j) == j[1] = "null"
is_boolean(j) == j[1] = "boolean"
is_number(j) == j[1] = "number"
is_string(j) == j[1] = "string"
is_array(j) == j[1] = "array"
is_object(j) == j[1] = "object"

\* json::empty(): null is empty, arrays and objects by size, scalars never
json_empty(j) ==
    IF is_null(j) THEN TRUE
    ELSE IF is_array(j) THEN Len(j[2]) = 0
    ELSE IF is_object(j) THEN DOMAIN j[2] = {}
    ELSE FALSE

\* json::size()
json_size(j) ==
    IF is_null(j) THEN 0
    ELSE IF is_array(j) THEN Len(j[2])
    ELSE IF is_object(j) THEN Cardinality(DOMAIN j[2])
    ELSE 1

\* json::contains(key): false on anything that is not an object
json_contains(j, key) == is_object(j) /\ key \in DOMAIN j[2]

\* j[key] = v on an object
json_set(j, key, v) ==
    JObj([k \in (DOMAIN j[2]) \cup {key} |-> IF k = key THEN v ELSE j[2][k]])

\* j.erase(j.find(key)) on an object
json_erase(j, key) ==
    JObj([k \in (DOMAIN j[2]) \ {key} |-> j[2][k]])

\* j.push_back(v) on an array
json_push_back(j, v) == JArr(Append(j[2], v))

(***************************************************************************)
(* Node categories (traits.hpp) and the types of the modelled trees        *)
(***************************************************************************)
TBool == <<"leaf", "bool">>
TInt == <<"leaf", "int">>
TString == <<"leaf", "string">>
TArray(E) == <<"array", E>>
TMap(E) == <<"convertible_map", E>>
TIntMap(E) == <<"not_convertible_map", E>>
TStruct(n) == <<"visitable", n>>

is_array_t(T) == T[1] = "array"
is_convertible_map_t(T) == T[1] = "convertible_map"
is_not_convertible_map_t(T) == T[1] = "not_convertible_map"
is_map_t(T) == is_convertible_map_t(T) \/ is_not_convertible_map_t(T)
is_visitable_t(T) == T[1] = "visitable"
is_leaf_t(T) == T[1] = "leaf"

\* VISITABLE_STRUCT member lists, in declaration order
Members(n) ==
    IF n = "visitable" THEN <<"b", "i", "m">>
    ELSE IF n = "item" THEN <<"i">>
    ELSE <<"v", "n">>

MemberType(n, key) ==
    IF n = "visitable" THEN
        (IF key = "b" THEN TBool ELSE IF key = "i" THEN TInt ELSE TMap(TInt))
    ELSE IF n = "item" THEN TInt
    ELSE (IF key = "v" THEN TArray(TInt) ELSE TStruct("item"))

\* the default-constructed instance of each struct (in-class initialisers)
ItemDefaults == [i |-> 99]

Defaults(n) ==
    IF n = "visitable" THEN [b |-> TRUE, i |-> 99, m |-> [k \in {"x"} |-> 11]]
    ELSE IF n = "item" THEN ItemDefaults
    ELSE [v |-> <<99>>, n |-> ItemDefaults]

\* a value-initialised object: T value {}
ValueInit(T) ==
    IF is_leaf_t(T) THEN
        (IF T = TBool THEN FALSE ELSE IF T = TInt THEN 0 ELSE "")
    ELSE IF is_array_t(T) THEN <<>>
    ELSE IF is_map_t(T) THEN EmptyMap
    ELSE Defaults(T[2])

(***************************************************************************)
(* Small helpers on sets and functions                                     *)
(***************************************************************************)
Min(S) == CHOOSE x \in S : \A y \in S : x <= y

\* the keys of a std::map<int, ...> in iteration (ascending) order
RECURSIVE SortedKeys(_)
SortedKeys(S) ==
    IF S = {} THEN <<>> ELSE <<Min(S)>> \o SortedKeys(S \ {Min(S)})

\* container.emplace(key, value): an existing key keeps its value
map_emplace(c, key, value) ==
    IF key \in DOMAIN c THEN c
    ELSE [k \in (DOMAIN c) \cup {key} |-> IF k = key THEN value ELSE c[k]]

(***************************************************************************)
(* Leaf conversions (nlohmann to_json / from_json of the leaf types)       *)
(***************************************************************************)
to_json(T, value) ==
    IF T = TBool THEN JBool(value)
    ELSE IF T = TInt THEN JInt(value)
    ELSE JStr(value)

\* from_json throws a type_error unless the JSON type fits the target;
\* an arithmetic target also accepts a boolean
from_json_ok(T, j) ==
    IF T = TBool THEN is_boolean(j)
    ELSE IF T = TInt THEN is_number(j) \/ is_boolean(j)
    ELSE is_string(j)

from_json(T, j) ==
    IF T = TInt /\ is_boolean(j) THEN (IF j[2] THEN 1 ELSE 0) ELSE j[2]

(***************************************************************************)
(* serialize: every overload returns the document and the bool result      *)
(***************************************************************************)
RECURSIVE serialize(_, _, _, _)

serialize_leaf(j, T, value, omit_defaults) ==
    [j |-> to_json(T, value), ret |-> TRUE]

RECURSIVE serialize_array_loop(_, _, _, _, _)
serialize_array_loop(j, T, container, omit_defaults, idx) ==
    IF idx > Len(container) THEN j
    ELSE serialize_array_loop(
            json_push_back(j, serialize(JNull, T[2], container[idx], omit_defaults).j),
            T, container, omit_defaults, idx + 1)

serialize_array(j, T, container, omit_defaults) ==
    LET out == serialize_array_loop(JArr(<<>>), T, container, omit_defaults, 1)
    IN  [j |-> out, ret |-> ~json_empty(out)]

serialize_convertible_map(j, T, container, omit_defaults) ==
    LET out == JObj([key \in DOMAIN container |->
                        serialize(JNull, T[2], container[key], omit_defaults).j])
    IN  [j |-> out, ret |-> ~json_empty(out)]

RECURSIVE serialize_not_convertible_map_loop(_, _, _, _, _)
serialize_not_convertible_map_loop(j, T, container, omit_defaults, keys) ==
    IF keys = <<>> THEN j
    ELSE LET key == Head(keys)
             k == serialize_leaf(JNull, TInt, key, FALSE)
             v == serialize(JNull, T[2], container[key], omit_defaults)
         IN  serialize_not_convertible_map_loop(
                IF k.ret THEN json_push_back(j, JArr(<<k.j, v.j>>)) ELSE j,
                T, container, omit_defaults, Tail(keys))

serialize_not_convertible_map(j, T, container, omit_defaults) ==
    LET out == serialize_not_convertible_map_loop(JArr(<<>>), T, container,
                    omit_defaults, SortedKeys(DOMAIN container))
    IN  [j |-> out, ret |-> ~json_empty(out)]

\* serialize_member that encodes on top of the existing element
serialize_member_on_top(j, MT, key, value, def, omit_defaults) ==
    LET attempt == ~omit_defaults \/ value # def
        v == serialize(IF json_contains(j, key) THEN j[2][key] ELSE JNull,
                       MT, value, omit_defaults)
        written == attempt /\ v.ret
    IN  IF written THEN json_set(j, key, v.j)
        ELSE IF json_contains(j, key) THEN json_erase(j, key)
        ELSE j

\* serialize_member with the comparison against the default left out
serialize_member_no_diff(j, MT, key, value, def, omit_defaults) ==
    LET v == serialize(JNull, MT, value, omit_defaults)
    IN  IF v.ret THEN json_set(j, key, v.j)
        ELSE IF json_contains(j, key) THEN json_erase(j, key)
        ELSE j

\* serialize_member that leaves an existing element in place
serialize_member_no_erase(j, MT, key, value, def, omit_defaults) ==
    LET attempt == ~omit_defaults \/ value # def
        v == serialize(JNull, MT, value, omit_defaults)
        written == attempt /\ v.ret
    IN  IF written THEN json_set(j, key, v.j) ELSE j

\* the lambda of serialize(visitable): one member
serialize_member(j, MT, key, value, def, omit_defaults) ==
    LET attempt == ~omit_defaults \/ value # def
        v == serialize(JNull, MT, value, omit_defaults)
        written == attempt /\ v.ret
    IN  IF written THEN json_set(j, key, v.j)
        ELSE IF json_contains(j, key) THEN json_erase(j, key)
        ELSE j

RECURSIVE serialize_visitable_loop(_, _, _, _, _)
serialize_visitable_loop(j, T, container, omit_defaults, idx) ==
    IF idx > Len(Members(T[2])) THEN j
    ELSE LET key == Members(T[2])[idx]
         IN  serialize_visitable_loop(
                serialize_member(j, MemberType(T[2], key), key, container[key],
                                 Defaults(T[2])[key], omit_defaults),
                T, container, omit_defaults, idx + 1)

\* visitable_start that always begins with a fresh object
visitable_start_fresh(j) == JObj(EmptyMap)

\* to avoid overwriting unknown keys, j is only cleared if it is not an object
visitable_start(j) == IF is_object(j) THEN j ELSE JObj(EmptyMap)

serialize_visitable(j, T, container, omit_defaults) ==
    LET out == serialize_visitable_loop(visitable_start(j), T, container, omit_defaults, 1)
    IN  [j |-> out, ret |-> ~json_empty(out)]

serialize(j, T, value, omit_defaults) ==
    IF is_array_t(T) THEN serialize_array(j, T, value, omit_defaults)
    ELSE IF is_convertible_map_t(T) THEN serialize_convertible_map(j, T, value, omit_defaults)
    ELSE IF is_not_convertible_map_t(T) THEN serialize_not_convertible_map(j, T, value, omit_defaults)
    ELSE IF is_visitable_t(T) THEN serialize_visitable(j, T, value, omit_defaults)
    ELSE serialize_leaf(j, T, value, omit_defaults)

(***************************************************************************)
(* deserialize: every overload returns the target and the bool result      *)
(***************************************************************************)
RECURSIVE deserialize(_, _, _)

deserialize_leaf(j, T, value) ==
    IF from_json_ok(T, j) THEN [value |-> from_json(T, j), ret |-> TRUE]
    ELSE [value |-> value, ret |-> FALSE]

\* container.clear() of the array, convertible_map and not_convertible_map overloads
clear_array(container) == <<>>

\* clear_map that keeps the prior entries
clear_map_keep(container) == container

clear_map(container) == EmptyMap

RECURSIVE deserialize_array_loop(_, _, _, _)
deserialize_array_loop(j, T, container, idx) ==
    IF idx > Len(j[2]) THEN container
    ELSE deserialize_array_loop(j, T,
            Append(container, deserialize(j[2][idx], T[2], ValueInit(T[2])).value),
            idx + 1)

\* deserialize of an array that gives up when an element does not fit
deserialize_array_strict(j, T, container) ==
    IF ~is_array(j) THEN [value |-> container, ret |-> FALSE]
    ELSE IF \E idx \in 1..Len(j[2]) : ~deserialize(j[2][idx], T[2], ValueInit(T[2])).ret
    THEN [value |-> clear_array(container), ret |-> FALSE]
    ELSE [value |-> deserialize_array_loop(j, T, clear_array(container), 1), ret |-> TRUE]

deserialize_array(j, T, container) ==
    IF ~is_array(j) THEN [value |-> container, ret |-> FALSE]
    ELSE [value |-> deserialize_array_loop(j, T, clear_array(container), 1), ret |-> TRUE]

\* the items() loop: one emplace per key of the object
deserialize_convertible_map_loop(j, T, container) ==
    [k \in (DOMAIN container) \cup (DOMAIN j[2]) |->
        IF k \in DOMAIN container THEN container[k]
        ELSE deserialize(j[2][k], T[2], ValueInit(T[2])).value]

deserialize_convertible_map(j, T, container) ==
    IF ~is_object(j) THEN [value |-> container, ret |-> FALSE]
    ELSE [value |-> deserialize_convertible_map_loop(j, T, clear_map(container)),
          ret |-> TRUE]

RECURSIVE deserialize_not_convertible_map_loop(_, _, _, _)
deserialize_not_convertible_map_loop(j, T, container, idx) ==
    IF idx > Len(j[2]) THEN container
    ELSE LET v == j[2][idx]
         IN  IF ~is_array(v) \/ json_size(v) # 2
             THEN deserialize_not_convertible_map_loop(j, T, container, idx + 1)
             ELSE LET key == deserialize_leaf(v[2][1], TInt, 0)
                  IN  IF key.ret
                      THEN deserialize_not_convertible_map_loop(j, T,
                              map_emplace(container, key.value,
                                  deserialize(v[2][2], T[2], ValueInit(T[2])).value),
                              idx + 1)
                      ELSE deserialize_not_convertible_map_loop(j, T, container, idx + 1)

deserialize_not_convertible_map(j, T, container) ==
    IF ~is_array(j) THEN [value |-> container, ret |-> FALSE]
    ELSE [value |-> deserialize_not_convertible_map_loop(j, T, clear_map(container), 1),
          ret |-> TRUE]

\* deserialize_member that leaves a member without a key as it is
deserialize_member_keep_stale(j, MT, key, value, def) ==
    IF json_contains(j, key) THEN deserialize(j[2][key], MT, value).value
    ELSE value

\* the lambda of deserialize(visitable): one member
deserialize_member(j, MT, key, value, def) ==
    IF json_contains(j, key) THEN deserialize(j[2][key], MT, value).value
    ELSE IF value # def THEN def
    ELSE value

deserialize_visitable(j, T, container) ==
    IF ~is_object(j) THEN [value |-> container, ret |-> FALSE]
    ELSE [value |-> [key \in DOMAIN container |->
                        deserialize_member(j, MemberType(T[2], key), key,
                                           container[key], Defaults(T[2])[key])],
          ret |-> TRUE]

deserialize(j, T, value) ==
    IF is_array_t(T) THEN deserialize_array(j, T, value)
    ELSE IF is_convertible_map_t(T) THEN deserialize_convertible_map(j, T, value)
    ELSE IF is_not_convertible_map_t(T) THEN deserialize_not_convertible_map(j, T, value)
    ELSE IF is_visitable_t(T) THEN deserialize_visitable(j, T, value)
    ELSE deserialize_leaf(j, T, value)

(***************************************************************************)
(* Bounded input domains                                                   *)
(***************************************************************************)
BoolValues == BOOLEAN
IntValues == {11, 99}
StringValues == {"", "foo"}
StringKeys == {"x", "z"}
IntKeys == {1, 3}

\* all sequences over S of length at most n
RECURSIVE SeqsUpTo(_, _)
SeqsUpTo(S, n) ==
    IF n = 0 THEN {<<>>}
    ELSE LET shorter == SeqsUpTo(S, n - 1)
         IN  shorter \cup {Append(s, x) : s \in {t \in shorter : Len(t) = n - 1}, x \in S}

\* all maps from a subset of K into S
MapsOver(K, S) == UNION {[D -> S] : D \in SUBSET K}

RECURSIVE ValuesOf(_)
ValuesOf(T) ==
    IF T = TBool THEN BoolValues
    ELSE IF T = TInt THEN IntValues
    ELSE IF T = TString THEN StringValues
    ELSE IF is_array_t(T) THEN SeqsUpTo(ValuesOf(T[2]), MaxLen)
    ELSE IF is_convertible_map_t(T) THEN MapsOver(StringKeys, ValuesOf(T[2]))
    ELSE IF is_not_convertible_map_t(T) THEN MapsOver(IntKeys, ValuesOf(T[2]))
    ELSE IF T[2] = "visitable" THEN
        {[b |-> b, i |-> i, m |-> m] :
            b \in ValuesOf(TBool), i \in ValuesOf(TInt), m \in ValuesOf(TMap(TInt))}
    ELSE IF T[2] = "item" THEN {[i |-> i] : i \in ValuesOf(TInt)}
    ELSE {[v |-> v, n |-> n] :
            v \in ValuesOf(TArray(TInt)), n \in ValuesOf(TStruct("item"))}

\* a value of each type that differs from the default in every member
Changed(T) ==
    IF is_array_t(T) THEN <<CHOOSE x \in ValuesOf(T[2]) : x # ValueInit(T[2])>>
    ELSE IF is_convertible_map_t(T) THEN
        [k \in {"z"} |-> CHOOSE x \in ValuesOf(T[2]) : x # ValueInit(T[2])]
    ELSE IF is_not_convertible_map_t(T) THEN
        [k \in {3} |-> CHOOSE x \in ValuesOf(T[2]) : x # ValueInit(T[2])]
    ELSE IF T[2] = "visitable" THEN [b |-> FALSE, i |-> 11, m |-> [k \in {"z"} |-> 99]]
    ELSE IF T[2] = "item" THEN [i |-> 11]
    ELSE [v |-> <<11, 11>>, n |-> [i |-> 11]]

UnknownKey == "unknownKey"

\* the document with one more key that no struct declares
WithUnknown(j) == json_set(IF is_object(j) THEN j ELSE JObj(EmptyMap), UnknownKey, JBool(TRUE))

\* the document with one more key in the object of every struct that is a
\* member, an element or a mapped value of the root
WithNestedUnknown(T, j) ==
    IF is_array_t(T) /\ is_visitable_t(T[2]) THEN
        JArr([n \in DOMAIN j[2] |-> WithUnknown(j[2][n])])
    ELSE IF is_convertible_map_t(T) /\ is_visitable_t(T[2]) THEN
        JObj([k \in DOMAIN j[2] |-> WithUnknown(j[2][k])])
    ELSE IF is_visitable_t(T) THEN
        JObj([k \in DOMAIN j[2] |->
                IF is_visitable_t(MemberType(T[2], k)) THEN WithUnknown(j[2][k])
                ELSE j[2][k]])
    ELSE j

\* documents an encoding may start from, or a file may hold
Documents(T) ==
    LET full == {serialize(JNull, T, v, FALSE).j : v \in {ValueInit(T), Changed(T)}}
    IN  {JNull, JArr(<<JStr("xxx")>>), JObj(EmptyMap), WithUnknown(JNull)}
            \cup full \cup {WithUnknown(j) : j \in {d \in full : is_object(d)}}
            \cup {WithNestedUnknown(T, serialize(JNull, T, Changed(T), FALSE).j)}

AllTypes ==
    {TStruct("visitable"), TStruct("holder"), TArray(TInt), TArray(TStruct("item")),
     TMap(TStruct("item")), TIntMap(TString), TMap(TMap(TInt))}

(***************************************************************************)
(* The filesystem: the backing file and the temporary file of save()       *)
(***************************************************************************)
path_ == "data.json"

\* temp_path that names the backing file itself
temp_path_in_place == path_

\* std::filesystem::path temp_path = path_.string() + "~"
temp_path == "data.json~"

Paths == {path_, temp_path}

\* file contents: no file, a zero-length file, text that does not parse,
\* the dump of a document, a strict prefix of the dump of a document
Absent == <<"absent", JNull>>
EmptyFile == <<"empty", JNull>>
Corrupt == <<"corrupt", JNull>>
Dump(j) == <<"json", j>>
Prefix(j) == <<"partial", j>>

exists(f) == f[1] # "absent"
parses(f) == f[1] = "json"
parse(f) == f[2]

FileContents(T) == {Absent, EmptyFile, Corrupt} \cup {Dump(j) : j \in Documents(T)}

RootTypes ==
    {TStruct("visitable"), TStruct("holder"), TArray(TStruct("item")),
     TMap(TStruct("item")), TIntMap(TString)}

(***************************************************************************)
(* State                                                                   *)
(***************************************************************************)
VARIABLES
    cT,      \* codec run: the static type of the node
    cC,      \* codec run: the value that is encoded
    cBase,   \* codec run: the document the encoding starts from
    cOmit,   \* codec run: omit_defaults
    cJ,      \* codec run: the document after serialize
    cRet,    \* codec run: the result of serialize
    cTgt,    \* codec run: the target before deserialize
    cOut,    \* codec run: the target after deserialize
    cDRet,   \* codec run: the result of deserialize
    cPc,     \* codec run: "start", "encoded", "decoded"
    rootT,   \* tree<Root>: the static type Root
    root,    \* tree::root_
    fs,      \* the content of every path of the filesystem
    pc,      \* the position of save(): "idle" between calls
    out,     \* save(): the local json out
    prior,   \* the content of path_ when the last save() started
    fsOps,   \* the filesystem changes the last save() made
    lastOp,  \* the last completed operation
    prevOp,  \* "save" when lastOp is a save() that directly followed a save()
    threw,   \* lastOp ended with an exception
    rootBefore, \* root_ when the last load() started
    loaded,  \* a load() has read the document that path_ held before the last save()
    seen,    \* what a concurrent reader last read from path_
    pT,      \* path run: the static type of the container
    pTree,   \* path run: the container before visit_path
    pPath,   \* path run: the path text
    pInsert, \* path run: insert_keys
    pRes,    \* path run: what visit_path returned and left behind
    pPc,     \* path run: "start", "done"
    bT,      \* dbus<Root>: the static type Root
    bRoot,   \* dbus::root_
    bBefore, \* dbus::root_ when the method was called
    bFilter, \* dbus::filter_
    bOnSet,  \* dbus::on_set_ holds a callback
    bCall,   \* the method that was called and its arguments
    bOut,    \* what the method left behind
    bPc,     \* interface run: "ready", "done"
    failbit, \* save(): the temporary file's stream has failbit or badbit set
    is_open, \* save(): stdio_fstream::is_open() of the temporary file's stream
    fault,   \* the first step of the last save() that failed: "none", "open", "write", "fsync"
    wT,      \* traversal run: the static type of the container
    wTree,   \* traversal run: the container
    wMode,   \* traversal run: the template argument Traversal
    wCalls,  \* traversal run: the calls of func, in order
    wPc      \* traversal run: "start", "done"

cvars == <<cT, cC, cBase, cOmit, cJ, cRet, cTgt, cOut, cDRet, cPc>>
svars == <<rootT, root, fs, pc, out, prior, fsOps, lastOp, prevOp, threw,
           rootBefore, loaded, seen>>
pvars == <<pT, pTree, pPath, pInsert, pRes, pPc>>
bvars == <<bT, bRoot, bBefore, bFilter, bOnSet, bCall, bOut, bPc>>
fvars == <<failbit, is_open, fault>>
wvars == <<wT, wTree, wMode, wCalls, wPc>>
vars == <<cvars, svars, pvars, bvars, fvars, wvars>>

NotSeen == <<"notseen", JNull>>

\* the store is not used during codec runs
StoreIdle ==
    /\ rootT = TInt /\ root = 0 /\ fs = [p \in Paths |-> Absent]
    /\ pc = "idle" /\ out = JNull /\ prior = Absent /\ fsOps = {}
    /\ lastOp = "none" /\ prevOp = "other" /\ threw = FALSE
    /\ rootBefore = 0 /\ loaded = FALSE /\ seen = NotSeen

\* visit_path has not run
NoRes == [found |-> FALSE, invoked |-> 0, threw |-> "none", ret |-> "none"]

\* no path run during codec runs and store operation
PathIdle ==
    /\ pT = TInt /\ pTree = 0 /\ pPath = "" /\ pInsert = FALSE
    /\ pRes = NoRes /\ pPc = "off"

\* no method of the D-Bus interface has been called
NoCall == [op |-> "none"]

\* there is no D-Bus interface during the other runs
BridgeIdle ==
    /\ bT = TInt /\ bRoot = 0 /\ bBefore = 0
    /\ bFilter = [set |-> FALSE] /\ bOnSet = FALSE
    /\ bCall = NoCall /\ bOut = NoCall /\ bPc = "off"

\* no stream of save() has failed: the runs without I/O failures
StreamIdle == failbit = FALSE /\ is_open = FALSE /\ fault = "none"

\* for_each has not run
WalkIdle == wT = TInt /\ wTree = 0 /\ wMode = {} /\ wCalls = <<>> /\ wPc = "off"

\* no codec run during store operation
CodecIdle ==
    /\ cT = TInt /\ cC = 0 /\ cBase = JNull /\ cOmit = FALSE /\ cJ = JNull
    /\ cRet = FALSE /\ cTgt = 0 /\ cOut = 0 /\ cDRet = FALSE /\ cPc = "off"

(***************************************************************************)
(* Codec runs: serialize a value, then deserialize the document            *)
(***************************************************************************)
InitCodec ==
    /\ cT \in AllTypes
    /\ cC \in ValuesOf(cT)
    /\ cBase \in Documents(cT)
    /\ cOmit \in BOOLEAN
    /\ cJ = cBase
    /\ cRet = FALSE
    /\ cTgt = ValueInit(cT)
    /\ cOut = ValueInit(cT)
    /\ cDRet = FALSE
    /\ cPc = "start"
    /\ StoreIdle
    /\ PathIdle
    /\ BridgeIdle
    /\ StreamIdle
    /\ WalkIdle

Encode ==
    /\ cPc = "start"
    /\ LET r == serialize(cJ, cT, cC, cOmit)
       IN  cJ' = r.j /\ cRet' = r.ret
    /\ cPc' = "encoded"
    /\ UNCHANGED <<cT, cC, cBase, cOmit, cTgt, cOut, cDRet>>
    /\ UNCHANGED <<svars, pvars, bvars, fvars, wvars>>

Decode ==
    /\ cPc = "encoded"
    /\ \E t \in ValuesOf(cT) :
        LET r == deserialize(cJ, cT, t)
        IN  cTgt' = t /\ cOut' = r.value /\ cDRet' = r.ret
    /\ cPc' = "decoded"
    /\ UNCHANGED <<cT, cC, cBase, cOmit, cJ, cRet>>
    /\ UNCHANGED <<svars, pvars, bvars, fvars, wvars>>

NextCodec == Encode \/ Decode

SpecCodec == InitCodec /\ [][NextCodec]_vars

(***************************************************************************)
(* Properties of the codec                                                 *)
(***************************************************************************)
IsEmptyDocument(j) == j = JNull \/ j = JObj(EmptyMap)

\* C7: for every struct type with defaults D, serialize(D, omit_defaults = true)
\* on an empty document gives an object with zero keys, and deserializing that
\* object into an instance with any mutated members makes the instance equal D.
C7_DefaultsEncodeToNoKeys ==
    (is_visitable_t(cT) /\ cC = Defaults(cT[2]) /\ cOmit /\ IsEmptyDocument(cBase))
        => /\ cPc # "start" => (cJ = JObj(EmptyMap) /\ ~cRet)
           /\ cPc = "decoded" => (cDRet /\ cOut = Defaults(cT[2]))

C7_Witness ==
    /\ is_visitable_t(cT) /\ cC = Defaults(cT[2]) /\ cOmit /\ cBase = JNull
    /\ cPc = "decoded"
    /\ cTgt = Changed(cT)
    /\ cOut = Defaults(cT[2])

IsContainerType(T) == is_array_t(T) \/ is_map_t(T)

\* C8: for every array, string-keyed map and int-keyed map value C (the empty
\* one too) and every prior content of the target, deserializing the
\* serialization of C succeeds and leaves the target equal to C.
C8_ContainerRoundTrip ==
    (IsContainerType(cT) /\ cPc = "decoded") => (cDRet /\ cOut = cC)

C8_Witness ==
    /\ is_map_t(cT) /\ cPc = "decoded"
    /\ cC # EmptyMap
    /\ \E k \in DOMAIN cTgt : k \notin DOMAIN cC
    /\ cOut = cC

\* C9: after a struct is serialized with omit_defaults = true on top of an
\* existing object, no member whose value equals its default has a key in the
\* result, also when the existing object held a key for it.
C9_DefaultMembersHaveNoKey ==
    (is_visitable_t(cT) /\ cOmit /\ cPc # "start")
        => \A key \in DOMAIN cC :
              cC[key] = Defaults(cT[2])[key] => ~json_contains(cJ, key)

C9_Witness ==
    /\ is_visitable_t(cT) /\ cOmit /\ cPc = "encoded"
    /\ \E key \in DOMAIN cC :
          /\ cC[key] = Defaults(cT[2])[key]
          /\ json_contains(cBase, key)
          /\ ~json_contains(cJ, key)
    /\ \E key \in DOMAIN cC : json_contains(cJ, key)

\* C10: serializing a struct sets a key holding the member's serialization for
\* every member when omit_defaults is false, and for every member that differs
\* from its default when omit_defaults is true, whatever the member's value
\* (an empty array or map member included).
C10_EveryEncodedMemberHasKey ==
    (is_visitable_t(cT) /\ cPc # "start")
        => \A key \in DOMAIN cC :
              (~cOmit \/ cC[key] # Defaults(cT[2])[key])
                  => /\ json_contains(cJ, key)
                     /\ cJ[2][key] = serialize(JNull, MemberType(cT[2], key), cC[key], cOmit).j

(***************************************************************************)
(* jstore::tree: load() and save()                                         *)
(***************************************************************************)
\* load that parses without exceptions
load_no_throw(f, T, r) ==
    IF ~exists(f) \/ ~parses(f) THEN [root |-> r, threw |-> FALSE]
    ELSE [root |-> deserialize(parse(f), T, r).value, threw |-> FALSE]

\* tree::load: the root afterwards, and whether the call threw
load(f, T, r) ==
    IF ~exists(f) THEN [root |-> r, threw |-> FALSE]
    ELSE IF ~parses(f) THEN [root |-> r, threw |-> TRUE]
    ELSE [root |-> deserialize(parse(f), T, r).value, threw |-> FALSE]

\* tree::tree: default-construct the root, then load() with exceptions caught
construct(f, T) == load(f, T, ValueInit(T)).root

\* read_old that makes an object of text that does not parse
read_old_salvage(f) ==
    IF ~exists(f) THEN JNull ELSE IF parses(f) THEN parse(f) ELSE WithUnknown(JNull)

\* save(): the existing content, json{} when there is none or it does not parse
read_old(f) == IF exists(f) /\ parses(f) THEN parse(f) ELSE JNull

\* no_content that never removes the file
no_content_never(ret) == FALSE

\* save(): if (!serialize(out, root_, true, on_error_))
no_content(ret) == ~ret

\* save_unchanged that always writes
save_unchanged_never(new, old) == FALSE

\* save(): if (out == old)
save_unchanged(new, old) == new = old

\* std::filesystem::rename(from, to)
rename(f, from, to) ==
    IF from = to THEN f
    ELSE [p \in DOMAIN f |-> IF p = to THEN f[from] ELSE IF p = from THEN Absent ELSE f[p]]

Init ==
    /\ CodecIdle
    /\ PathIdle
    /\ BridgeIdle
    /\ StreamIdle
    /\ WalkIdle
    /\ rootT \in RootTypes
    /\ fs \in {f \in [Paths -> FileContents(rootT)] : \A p \in Paths \ {path_} : f[p] = Absent}
    /\ root = construct(fs[path_], rootT)
    /\ pc = "idle"
    /\ out = JNull
    /\ prior = fs[path_]
    /\ fsOps = {}
    /\ lastOp = "construct"
    /\ prevOp = "other"
    /\ threw = FALSE
    /\ rootBefore = root
    /\ loaded = parses(fs[path_])
    /\ seen = NotSeen

\* the operation a save() followed, as far as it is recorded
Previous(op) == IF op = "save" THEN "save" ELSE "other"

\* what every operation other than save() and load() leaves behind
Completed(op) ==
    /\ pc' = "idle"
    /\ out' = JNull
    /\ prior' = fs'[path_]
    /\ fsOps' = {}
    /\ lastOp' = op
    /\ prevOp' = "other"
    /\ threw' = FALSE
    /\ rootBefore' = root'
    /\ seen' = NotSeen

\* the application changes the root in memory
Mutate ==
    /\ pc = "idle"
    /\ \E v \in ValuesOf(rootT) : v # root /\ root' = v
    /\ UNCHANGED <<rootT, fs, loaded>>
    /\ Completed("mutate")
    /\ UNCHANGED <<cvars, pvars, bvars, fvars, wvars>>

\* another program replaces the backing file
WriteFile ==
    /\ pc = "idle"
    /\ \E f \in FileContents(rootT) : f # fs[path_] /\ fs' = [fs EXCEPT ![path_] = f]
    /\ loaded' = FALSE
    /\ UNCHANGED <<rootT, root>>
    /\ Completed("write")
    /\ UNCHANGED <<cvars, pvars, bvars, fvars, wvars>>

\* a new tree object on the same path
Construct ==
    /\ pc = "idle"
    /\ root' = construct(fs[path_], rootT)
    /\ loaded' = parses(fs[path_])
    /\ UNCHANGED <<rootT, fs>>
    /\ Completed("construct")
    /\ UNCHANGED <<cvars, pvars, bvars, fvars, wvars>>

Load ==
    /\ pc = "idle"
    /\ LET r == load(fs[path_], rootT, root)
       IN  root' = r.root /\ threw' = r.threw
    /\ rootBefore' = root
    /\ loaded' = parses(fs[path_])
    /\ lastOp' = "load"
    /\ prevOp' = "other"
    /\ out' = JNull
    /\ prior' = fs[path_]
    /\ fsOps' = {}
    /\ seen' = NotSeen
    /\ UNCHANGED <<rootT, fs, pc>>
    /\ UNCHANGED <<cvars, pvars, bvars, fvars, wvars>>

\* save() up to its first change of the filesystem: read the existing
\* content, serialize on top of it, remove the file or return early
SaveBegin ==
    /\ pc = "idle"
    /\ LET f == fs[path_]
           old == read_old(f)
           r == serialize(old, rootT, root, TRUE)
       IN  /\ out' = r.j
           /\ prior' = f
           /\ IF no_content(r.ret)
              THEN /\ fs' = [fs EXCEPT ![path_] = Absent]
                   /\ fsOps' = IF exists(f) THEN {"remove"} ELSE {}
                   /\ pc' = "idle" /\ lastOp' = "save" /\ prevOp' = Previous(lastOp)
              ELSE IF save_unchanged(r.j, old)
              THEN /\ fs' = fs
                   /\ fsOps' = {}
                   /\ pc' = "idle" /\ lastOp' = "save" /\ prevOp' = Previous(lastOp)
              ELSE /\ fs' = fs
                   /\ fsOps' = {}
                   /\ pc' = "open" /\ UNCHANGED <<lastOp, prevOp>>
    /\ threw' = FALSE
    /\ rootBefore' = root
    /\ seen' = NotSeen
    /\ UNCHANGED <<rootT, root, loaded>>
    /\ UNCHANGED <<cvars, pvars, bvars, fvars, wvars>>

\* stdio_fstream file(temp_path, std::ios_base::out): created or truncated
SaveOpen ==
    /\ pc = "open"
    /\ fs' = [fs EXCEPT ![temp_path] = EmptyFile]
    /\ fsOps' = fsOps \cup {"create"}
    /\ pc' = "write"
    /\ UNCHANGED <<rootT, root, out, prior, lastOp, prevOp, threw, rootBefore, loaded, seen>>
    /\ UNCHANGED <<cvars, pvars, bvars, fvars, wvars>>

\* file << out: a first part of the text has reached the file
SaveWritePart ==
    /\ pc = "write"
    /\ fs' = [fs EXCEPT ![temp_path] = Prefix(out)]
    /\ fsOps' = fsOps \cup {"write"}
    /\ pc' = "write_rest"
    /\ UNCHANGED <<rootT, root, out, prior, lastOp, prevOp, threw, rootBefore, loaded, seen>>
    /\ UNCHANGED <<cvars, pvars, bvars, fvars, wvars>>

\* file << out: the whole text has reached the file
SaveWriteAll ==
    /\ pc \in {"write", "write_rest"}
    /\ fs' = [fs EXCEPT ![temp_path] = Dump(out)]
    /\ fsOps' = fsOps \cup {"write"}
    /\ pc' = "fsync"
    /\ UNCHANGED <<rootT, root, out, prior, lastOp, prevOp, threw, rootBefore, loaded, seen>>
    /\ UNCHANGED <<cvars, pvars, bvars, fvars, wvars>>

\* file.fsync()
SaveFsync ==
    /\ pc = "fsync"
    /\ pc' = "close"
    /\ UNCHANGED <<rootT, root, fs, out, prior, fsOps, lastOp, prevOp, threw, rootBefore, loaded, seen>>
    /\ UNCHANGED <<cvars, pvars, bvars, fvars, wvars>>

\* file.close()
SaveClose ==
    /\ pc = "close"
    /\ pc' = "rename"
    /\ UNCHANGED <<rootT, root, fs, out, prior, fsOps, lastOp, prevOp, threw, rootBefore, loaded, seen>>
    /\ UNCHANGED <<cvars, pvars, bvars, fvars, wvars>>

\* std::filesystem::rename(temp_path, path_), then save() returns
SaveRename ==
    /\ pc = "rename"
    /\ fs' = rename(fs, temp_path, path_)
    /\ fsOps' = fsOps \cup {"rename"}
    /\ pc' = "idle"
    /\ lastOp' = "save"
    /\ prevOp' = Previous(lastOp)
    /\ UNCHANGED <<rootT, root, out, prior, threw, rootBefore, loaded, seen>>
    /\ UNCHANGED <<cvars, pvars, bvars, fvars, wvars>>

\* save() stops between two of its steps (the process ends, its files stay)
Stop ==
    /\ pc \notin {"idle", "stopped"}
    /\ pc' = "stopped"
    /\ UNCHANGED <<rootT, root, fs, out, prior, fsOps, lastOp, prevOp, threw, rootBefore, loaded, seen>>
    /\ UNCHANGED <<cvars, pvars, bvars, fvars, wvars>>

\* a concurrent reader reads the backing path
Read ==
    /\ seen # fs[path_]
    /\ seen' = fs[path_]
    /\ UNCHANGED <<rootT, root, fs, pc, out, prior, fsOps, lastOp, prevOp, threw, rootBefore, loaded>>
    /\ UNCHANGED <<cvars, pvars, bvars, fvars, wvars>>

Next ==
    \/ Mutate \/ WriteFile \/ Construct \/ Load
    \/ SaveBegin \/ SaveOpen \/ SaveWritePart \/ SaveWriteAll
    \/ SaveFsync \/ SaveClose \/ SaveRename
    \/ Stop \/ Read

Spec == Init /\ [][Next]_vars

(***************************************************************************)
(* Properties of the store                                                 *)
(***************************************************************************)
\* what path_ may hold while save() runs or after it stopped: the complete
\* prior content, the complete new document, or no file
ReaderMaySee == {prior, Dump(out), Absent}

\* C1: at every step of save() (temporary file created, partly written,
\* flushed, closed, renamed), and when save() stops at any of them, the backing
\* path holds, and a reader of it has read, the complete prior document, the
\* complete new document or no file, never a partly written document.
C1_ReaderNeverSeesPartial ==
    /\ fs[path_] \in ReaderMaySee
    /\ seen # NotSeen => seen \in ReaderMaySee

C1_Witness ==
    /\ pc = "stopped"
    /\ fs[temp_path] = Prefix(out)
    /\ exists(prior)
    /\ seen = prior

MemberSet(T) == {Members(T[2])[n] : n \in 1..Len(Members(T[2]))}

\* C2: when the top-level object of the backing document has a key that is not
\* a member of the root struct, load() followed by save() leaves that key and
\* its value in the backing document, whatever the values of the members.
C2_UnknownKeysPreserved ==
    (is_visitable_t(rootT) /\ lastOp = "save" /\ pc = "idle" /\ loaded
        /\ parses(prior) /\ is_object(parse(prior)))
        => \A k \in (DOMAIN parse(prior)[2]) \ MemberSet(rootT) :
              /\ parses(fs[path_])
              /\ json_contains(parse(fs[path_]), k)
              /\ parse(fs[path_])[2][k] = parse(prior)[2][k]

C2_Witness ==
    /\ is_visitable_t(rootT) /\ lastOp = "save" /\ pc = "idle" /\ loaded
    /\ parses(prior) /\ json_contains(parse(prior), UnknownKey)
    /\ root # construct(prior, rootT)
    /\ "rename" \in fsOps
    /\ json_contains(parse(fs[path_]), UnknownKey)

\* C3: after load() of a document that parses to an object into a root struct,
\* every member without a key in the document equals its default, whatever
\* value it held before the call.
C3_AbsentMembersAreDefault ==
    (is_visitable_t(rootT) /\ lastOp = "load" /\ pc = "idle"
        /\ parses(fs[path_]) /\ is_object(parse(fs[path_])))
        => \A key \in MemberSet(rootT) :
              ~json_contains(parse(fs[path_]), key) => root[key] = Defaults(rootT[2])[key]

C3_Witness ==
    /\ is_visitable_t(rootT) /\ lastOp = "load" /\ pc = "idle"
    /\ parses(fs[path_]) /\ is_object(parse(fs[path_]))
    /\ \E key \in MemberSet(rootT) :
          /\ ~json_contains(parse(fs[path_]), key)
          /\ rootBefore[key] # Defaults(rootT[2])[key]
          /\ root[key] = Defaults(rootT[2])[key]

\* C4: load() on a backing file that exists and does not parse (a zero-length
\* file too) throws and leaves the root as it was before the call.
C4_ParseFailureKeepsRoot ==
    (lastOp = "load" /\ pc = "idle" /\ exists(fs[path_]) /\ ~parses(fs[path_]))
        => (threw /\ root = rootBefore)

C4_Witness ==
    /\ lastOp = "load" /\ pc = "idle" /\ fs[path_] = EmptyFile
    /\ threw
    /\ root # ValueInit(rootT)
    /\ root = rootBefore

\* C5: when save() is called twice in succession with nothing changed in
\* between, the second call makes no change to the filesystem and the backing
\* file is what the first call left.
C5_SecondSaveIsNoOp ==
    /\ (lastOp = "save" /\ prevOp = "save" /\ pc = "idle")
          => (fsOps = {} /\ fs[path_] = prior)
    /\ lastOp = "save" => pc = "idle"

C5_Witness ==
    /\ lastOp = "save" /\ prevOp = "save" /\ pc = "idle"
    /\ exists(fs[path_])
    /\ fsOps = {}

\* C6: when the default-omitted serialization of the root on top of the prior
\* document is empty, save() leaves no file at the backing path: an existing
\* file is removed and no empty file is created.
C6_EmptyContentLeavesNoFile ==
    (lastOp = "save" /\ pc = "idle" /\ json_empty(out)) => fs[path_] = Absent

C6_Witness ==
    /\ lastOp = "save" /\ pc = "idle" /\ json_empty(out)
    /\ exists(prior)
    /\ "remove" \in fsOps
    /\ fs[path_] = Absent

(***************************************************************************)
(* Path text (visit_path.hpp): a path is a string, '/' separates segments  *)
(***************************************************************************)
\* longest path text that is enumerated as an input
MaxPathLen == 4

\* path.find_first_of(ch): the first position of ch, one past the end
\* (npos) when there is none
find_first_of(path, ch) ==
    LET hits == {i \in 1..Len(path) : SubSeq(path, i, i) = ch}
    IN  IF hits = {} THEN Len(path) + 1 ELSE Min(hits)

\* split_path: the first segment and the remainder behind the first '/';
\* the remainder is empty when the '/' is the last character or is missing
split_path(path) ==
    LET slash_pos == find_first_of(path, "/")
    IN  <<SubSeq(path, 1, slash_pos - 1),
          IF slash_pos < Len(path) THEN SubSeq(path, slash_pos + 1, Len(path)) ELSE "">>

Digits == <<"0", "1", "2", "3", "4", "5", "6", "7", "8", "9">>

is_digit(ch) == \E d \in 1..Len(Digits) : Digits[d] = ch

digit_value(ch) == (CHOOSE d \in 1..Len(Digits) : Digits[d] = ch) - 1

\* the number of leading characters of s from position from on that are digits
RECURSIVE digit_run(_, _)
digit_run(s, from) ==
    IF from <= Len(s) /\ is_digit(SubSeq(s, from, from))
    THEN 1 + digit_run(s, from + 1) ELSE 0

\* the value of the decimal digits s[from .. from + n - 1]
RECURSIVE digits_value(_, _, _)
digits_value(s, from, n) ==
    IF n = 0 THEN 0
    ELSE 10 * digits_value(s, from, n - 1) + digit_value(SubSeq(s, from + n - 1, from + n - 1))

\* std::from_chars(first, last, size_t &, 10): no sign, no white space;
\* ptr counts the characters consumed
from_chars(s) ==
    LET n == digit_run(s, 1)
    IN  IF n = 0 THEN [ec |-> "invalid_argument", ptr |-> 0, value |-> 0]
        ELSE [ec |-> "ok", ptr |-> n, value |-> digits_value(s, 1, n)]

\* the number of leading characters of s from position from on that are blanks
RECURSIVE blank_run(_, _)
blank_run(s, from) ==
    IF from <= Len(s) /\ SubSeq(s, from, from) = " "
    THEN 1 + blank_run(s, from + 1) ELSE 0

\* std::istringstream ss{key}; ss >> key_value for an int key: leading white
\* space is skipped, a sign is accepted, eof is set when the digits run to
\* the end of the text
extract_int(s) ==
    LET ws == blank_run(s, 1)
        signed == ws < Len(s) /\ SubSeq(s, ws + 1, ws + 1) \in {"+", "-"}
        first == IF signed THEN ws + 2 ELSE ws + 1
        n == digit_run(s, first)
        magnitude == digits_value(s, first, n)
    IN  IF n = 0 THEN [fail |-> TRUE, eof |-> first > Len(s), value |-> 0]
        ELSE [fail |-> FALSE, eof |-> first + n > Len(s),
              value |-> IF signed /\ SubSeq(s, ws + 1, ws + 1) = "-"
                        THEN 0 - magnitude ELSE magnitude]

\* the key a path segment names: the text itself for a string key, the
\* parsed number for an int key
segment_key(T, key) ==
    IF is_convertible_map_t(T) THEN [fail |-> FALSE, eof |-> TRUE, value |-> key]
    ELSE extract_int(key)

\* container.try_emplace(key) that inserts nothing
try_emplace_nothing(container, key, E) == container

\* container.try_emplace(key): a missing key gets a value-initialised entry
try_emplace(container, key, E) == map_emplace(container, key, ValueInit(E))

(***************************************************************************)
(* The visitors handed to visit_path: the counting lambda of the unit      *)
(* tests and the lambdas of the Get and Set methods (dbus.hpp)             *)
(***************************************************************************)
READ == "READ"
WRITE == "WRITE"

\* filter_func{}: no filter is installed
NoFilter == [set |-> FALSE]

\* a filter that refuses one kind of access at and below one path
Deny(access, prefix) == [set |-> TRUE, access |-> access, prefix |-> prefix]

starts_with(path, prefix) ==
    Len(prefix) <= Len(path) /\ SubSeq(path, 1, Len(prefix)) = prefix

\* filter_(path, access)
filter_call(filter, path, access) ==
    ~(filter.access = access /\ starts_with(path, filter.prefix))

\* !(filter_ && !filter_(path, access))
allowed(filter, path, access) == ~filter.set \/ filter_call(filter, path, access)

\* what a visitor leaves in the variables it captured
Captured(T, node, val, calls) == [T |-> T, node |-> node, val |-> val, calls |-> calls]

NoCapture == Captured(TInt, 0, Absent, <<>>)

\* [&](auto &value) { ++call_count; }
count_lambda(f, T, value) ==
    [node |-> value, threw |-> "none", out |-> Captured(T, value, Absent, <<>>)]

\* the lambda of Get: the filter, then serialize(j, member, false) and dump
Get_lambda(f, T, member) ==
    IF ~allowed(f.filter, f.path, READ)
    THEN [node |-> member, threw |-> "EACCES", out |-> NoCapture]
    ELSE [node |-> member, threw |-> "none",
          out |-> Captured(T, member, Dump(serialize(JNull, T, member, FALSE).j), <<>>)]

\* on_set_(path): the call, with the member as it is at that time
on_set_call(f, T, member) ==
    IF f.on_set THEN <<[path |-> f.path, T |-> T, member |-> member]>> ELSE <<>>

\* Set lambda that notifies before it looks at the request
Set_lambda_notify_first(f, T, member) ==
    [node |-> member,
     threw |-> IF ~allowed(f.filter, f.path, WRITE) THEN "EACCES" ELSE "EINVAL",
     out |-> Captured(T, member, Absent, on_set_call(f, T, member))]

\* the lambda of Set: the filter, json::parse(val), deserialize into the
\* member, then on_set_(path)
Set_lambda(f, T, member) ==
    IF ~allowed(f.filter, f.path, WRITE)
    THEN [node |-> member, threw |-> "EACCES", out |-> NoCapture]
    ELSE IF ~parses(f.val)
    THEN [node |-> member, threw |-> "EINVAL", out |-> NoCapture]
    ELSE LET d == deserialize(parse(f.val), T, member)
         IN  IF ~d.ret
             THEN [node |-> d.value, threw |-> "EINVAL", out |-> NoCapture]
             ELSE [node |-> d.value, threw |-> "none",
                   out |-> Captured(T, d.value, Absent, on_set_call(f, T, d.value))]

\* func(node) for each of the visitors
func(f, T, node) ==
    IF f.kind = "count" THEN count_lambda(f, T, node)
    ELSE IF f.kind = "Get" THEN Get_lambda(f, T, node)
    ELSE Set_lambda(f, T, node)

(***************************************************************************)
(* visit_path: the container afterwards, the bool result, how often func   *)
(* ran, the exception func threw, what func captured, and the statement    *)
(* that ended the traversal                                                *)
(***************************************************************************)
RECURSIVE visit_path(_, _, _, _, _)

\* visit_end that returns true without a call of func
visit_end_silent(T, node, f) ==
    [container |-> node, found |-> TRUE, invoked |-> 0, threw |-> "none",
     out |-> NoCapture, ret |-> "visited"]

\* func(container); return true;
visit_end(T, node, f) ==
    LET r == func(f, T, node)
    IN  [container |-> r.node, found |-> TRUE, invoked |-> 1, threw |-> r.threw,
         out |-> r.out, ret |-> "visited"]

\* return false;
visit_fail(container, ret) ==
    [container |-> container, found |-> FALSE, invoked |-> 0, threw |-> "none",
     out |-> NoCapture, ret |-> ret]

\* visit_path for array-like types that appends the element it misses
visit_path_array_grow(T, container, path, f, insert_keys) ==
    IF path = "" THEN visit_end(T, container, f)
    ELSE LET index_str == split_path(path)[1]
             child_path == split_path(path)[2]
             parsed == from_chars(index_str)
             index == parsed.value
             grown == IF insert_keys /\ index >= Len(container)
                      THEN Append(container, ValueInit(T[2])) ELSE container
         IN  IF parsed.ec # "ok" THEN visit_fail(container, "malformed")
             ELSE IF parsed.ptr # Len(index_str) THEN visit_fail(container, "malformed")
             ELSE IF index >= Len(grown) THEN visit_fail(container, "bounds")
             ELSE LET r == visit_path(T[2], grown[index + 1], child_path, f, insert_keys)
                  IN  [r EXCEPT !.container = [grown EXCEPT ![index + 1] = r.container]]

visit_path_array(T, container, path, f, insert_keys) ==
    IF path = "" THEN visit_end(T, container, f)
    ELSE LET index_str == split_path(path)[1]
             child_path == split_path(path)[2]
             parsed == from_chars(index_str)
             index == parsed.value
         IN  IF parsed.ec # "ok" THEN visit_fail(container, "malformed")
             ELSE IF parsed.ptr # Len(index_str) THEN visit_fail(container, "malformed")
             ELSE IF index >= Len(container) THEN visit_fail(container, "bounds")
             ELSE LET r == visit_path(T[2], container[index + 1], child_path, f, insert_keys)
                  IN  [r EXCEPT !.container = [container EXCEPT ![index + 1] = r.container]]

visit_path_map(T, container, path, f, insert_keys) ==
    IF path = "" THEN visit_end(T, container, f)
    ELSE LET key == split_path(path)[1]
             child_path == split_path(path)[2]
             parsed == segment_key(T, key)
             key_value == parsed.value
             inserted == IF insert_keys THEN try_emplace(container, key_value, T[2])
                         ELSE container
         IN  IF key = "" THEN visit_fail(container, "malformed")
             ELSE IF parsed.fail \/ ~parsed.eof THEN visit_fail(container, "malformed")
             ELSE IF key_value \notin DOMAIN inserted THEN visit_fail(container, "absent")
             ELSE LET r == visit_path(T[2], inserted[key_value], child_path, f, insert_keys)
                  IN  [r EXCEPT !.container = [inserted EXCEPT ![key_value] = r.container]]

visit_path_visitable(T, container, path, f, insert_keys) ==
    IF path = "" THEN visit_end(T, container, f)
    ELSE LET member == split_path(path)[1]
             child_path == split_path(path)[2]
             names == Members(T[2])
         IN  IF \E n \in 1..Len(names) : names[n] = member
             THEN LET r == visit_path(MemberType(T[2], member), container[member],
                                      child_path, f, insert_keys)
                  IN  [r EXCEPT !.container = [container EXCEPT ![member] = r.container]]
             ELSE visit_fail(container, "member")

visit_path_not_container(T, value, path, f, insert_keys) ==
    IF path # "" THEN visit_fail(value, "unreachable")
    ELSE visit_end(T, value, f)

visit_path(T, container, path, f, insert_keys) ==
    IF is_array_t(T) THEN visit_path_array(T, container, path, f, insert_keys)
    ELSE IF is_map_t(T) THEN visit_path_map(T, container, path, f, insert_keys)
    ELSE IF is_visitable_t(T) THEN visit_path_visitable(T, container, path, f, insert_keys)
    ELSE visit_path_not_container(T, container, path, f, insert_keys)

(***************************************************************************)
(* Path runs: visit_path with the counting visitor on bounded inputs       *)
(***************************************************************************)
PathTypes ==
    {TStruct("visitable"), TStruct("holder"), TArray(TStruct("item")),
     TMap(TStruct("item")), TMap(TArray(TInt)), TIntMap(TMap(TInt)), TIntMap(TString)}

\* the characters the segments of a path into a T are written with
RECURSIVE SegmentChars(_)
SegmentChars(T) ==
    IF is_leaf_t(T) THEN {}
    ELSE IF is_array_t(T) THEN {"0", "1"} \cup SegmentChars(T[2])
    ELSE IF is_convertible_map_t(T) THEN StringKeys \cup SegmentChars(T[2])
    ELSE IF is_not_convertible_map_t(T) THEN {"1", "3"} \cup SegmentChars(T[2])
    ELSE UNION {{Members(T[2])[n]} \cup SegmentChars(MemberType(T[2], Members(T[2])[n])) :
                    n \in 1..Len(Members(T[2]))}

\* all texts over the characters C of length at most n
RECURSIVE TextsUpTo(_, _)
TextsUpTo(C, n) ==
    IF n = 0 THEN {""}
    ELSE LET shorter == TextsUpTo(C, n - 1)
         IN  shorter \cup {s \o ch : s \in {t \in shorter : Len(t) = n - 1}, ch \in C}

PathTexts(T) == TextsUpTo({"/"} \cup SegmentChars(T), MaxPathLen)

\* the trees a path is resolved in
PathTrees(T) == {ValueInit(T), Changed(T)}

CountVisitor == [kind |-> "count"]

InitPath ==
    /\ pT \in PathTypes
    /\ pTree \in PathTrees(pT)
    /\ pPath \in PathTexts(pT)
    /\ pInsert \in BOOLEAN
    /\ pRes = NoRes
    /\ pPc = "start"
    /\ CodecIdle
    /\ StoreIdle
    /\ BridgeIdle
    /\ StreamIdle
    /\ WalkIdle

Resolve ==
    /\ pPc = "start"
    /\ pRes' = visit_path(pT, pTree, pPath, CountVisitor, pInsert)
    /\ pPc' = "done"
    /\ UNCHANGED <<pT, pTree, pPath, pInsert>>
    /\ UNCHANGED <<cvars, svars, bvars, fvars, wvars>>

NextPath == Resolve

SpecPath == InitPath /\ [][NextPath]_vars

(***************************************************************************)
(* Properties of visit_path                                                *)
(***************************************************************************)
\* the texts between the '/' characters of a path; the empty path has none
RECURSIVE Segments(_)
Segments(path) ==
    LET slash_pos == find_first_of(path, "/")
    IN  IF path = "" THEN <<>>
        ELSE IF slash_pos > Len(path) THEN <<path>>
        ELSE <<SubSeq(path, 1, slash_pos - 1)>>
                \o (IF slash_pos = Len(path) THEN <<"">>
                    ELSE Segments(SubSeq(path, slash_pos + 1, Len(path))))

\* a path text without an empty segment: no leading '/', no trailing '/',
\* no "//"
WellFormed(path) == \A n \in 1..Len(Segments(path)) : Segments(path)[n] # ""

\* the segment is the text of a key of the map type T
IsKeyText(T, segment) ==
    /\ segment # ""
    /\ ~segment_key(T, segment).fail
    /\ segment_key(T, segment).eof

\* the segment is the text of an array index
IsIndexText(segment) ==
    /\ from_chars(segment).ec = "ok"
    /\ from_chars(segment).ptr = Len(segment)

\* the index that the segment names lies within the array
InBounds(container, segment) == from_chars(segment).value < Len(container)

\* the node that the segments address in the tree, or the reason why there
\* is none: "absent" when the first thing missing is a key of a map,
\* "bounds" when it is an element of an array
RECURSIVE At(_, _, _)
At(T, value, segs) ==
    IF segs = <<>> THEN [ok |-> TRUE, why |-> "found", T |-> T, node |-> value]
    ELSE IF is_map_t(T) /\ IsKeyText(T, Head(segs)) THEN
        (IF segment_key(T, Head(segs)).value \in DOMAIN value
         THEN At(T[2], value[segment_key(T, Head(segs)).value], Tail(segs))
         ELSE [ok |-> FALSE, why |-> "absent", T |-> T, node |-> value])
    ELSE IF is_visitable_t(T) /\ Head(segs) \in MemberSet(T) THEN
        At(MemberType(T[2], Head(segs)), value[Head(segs)], Tail(segs))
    ELSE IF is_array_t(T) /\ IsIndexText(Head(segs)) THEN
        (IF InBounds(value, Head(segs))
         THEN At(T[2], value[from_chars(Head(segs)).value + 1], Tail(segs))
         ELSE [ok |-> FALSE, why |-> "bounds", T |-> T, node |-> value])
    ELSE [ok |-> FALSE, why |-> "other", T |-> T, node |-> value]

\* the tree with a value-initialised entry at every key of a map that the
\* segments name and the tree lacks
RECURSIVE WithMissingKeys(_, _, _)
WithMissingKeys(T, value, segs) ==
    IF segs = <<>> THEN value
    ELSE IF is_map_t(T) /\ IsKeyText(T, Head(segs)) THEN
        LET key == segment_key(T, Head(segs)).value
            entry == IF key \in DOMAIN value THEN value[key] ELSE ValueInit(T[2])
        IN  [k \in (DOMAIN value) \cup {key} |->
                IF k = key THEN WithMissingKeys(T[2], entry, Tail(segs)) ELSE value[k]]
    ELSE IF is_visitable_t(T) /\ Head(segs) \in MemberSet(T) THEN
        [value EXCEPT ![Head(segs)] =
            WithMissingKeys(MemberType(T[2], Head(segs)), value[Head(segs)], Tail(segs))]
    ELSE IF is_array_t(T) /\ IsIndexText(Head(segs)) /\ InBounds(value, Head(segs)) THEN
        [value EXCEPT ![from_chars(Head(segs)).value + 1] =
            WithMissingKeys(T[2], value[from_chars(Head(segs)).value + 1], Tail(segs))]
    ELSE value

\* the path of the run is well formed and names a key that a map of the
\* tree lacks
NamesAbsentKey ==
    /\ pPc = "done"
    /\ WellFormed(pPath)
    /\ At(pT, pTree, Segments(pPath)).why = "absent"

\* C11: resolving a well-formed path that names a key absent from a map
\* (string keys or int keys, at any depth).  With insert_keys the tree
\* afterwards is the tree before plus a value-initialised entry at each
\* missing key, the traversal never gives up at a missing key, and when the
\* segments address a node in that tree the visitor runs exactly once, on
\* that node, and the result is true.  Without insert_keys the result is
\* false, the visitor does not run and the tree is unchanged.
C11_AbsentKeyInsertedOrNotFound ==
    NamesAbsentKey =>
        IF pInsert
        THEN LET want == WithMissingKeys(pT, pTree, Segments(pPath))
                 at == At(pT, want, Segments(pPath))
             IN  /\ pRes.container = want
                 /\ pRes.ret # "absent"
                 /\ pRes.threw = "none"
                 /\ at.ok => /\ pRes.found
                             /\ pRes.invoked = 1
                             /\ pRes.out.T = at.T
                             /\ pRes.out.node = at.node
        ELSE /\ ~pRes.found
             /\ pRes.invoked = 0
             /\ pRes.container = pTree

\* two keys are created below each other, the outer one an int key, and the
\* visitor has run on the inner entry
C11_Witness ==
    /\ NamesAbsentKey
    /\ pInsert
    /\ pT = TIntMap(TMap(TInt))
    /\ pTree = EmptyMap
    /\ Len(Segments(pPath)) = 2
    /\ pRes.found
    /\ pRes.invoked = 1
    /\ pRes.out.node = ValueInit(TInt)

\* every array of the tree before has the same length in the tree after
RECURSIVE SameLengths(_, _, _)
SameLengths(T, before, after) ==
    IF is_array_t(T) THEN
        /\ Len(after) = Len(before)
        /\ \A n \in 1..Len(before) : SameLengths(T[2], before[n], after[n])
    ELSE IF is_map_t(T) THEN
        \A key \in DOMAIN before :
            key \in DOMAIN after /\ SameLengths(T[2], before[key], after[key])
    ELSE IF is_visitable_t(T) THEN
        \A key \in MemberSet(T) :
            SameLengths(MemberType(T[2], key), before[key], after[key])
    ELSE TRUE

\* the tree that the traversal walks: with insert_keys the keys that the
\* path names exist by the time it reaches them
TreeWalked ==
    IF pInsert THEN WithMissingKeys(pT, pTree, Segments(pPath)) ELSE pTree

\* the path of the run leads to an array and names an index that is not
\* below the length of that array
NamesIndexOutOfBounds ==
    /\ pPc = "done"
    /\ At(pT, TreeWalked, Segments(pPath)).why = "bounds"

\* C12: visit_path never changes the length of an array.  An index segment
\* that is not below the current length gives the result false without a
\* call of the visitor, with insert_keys true as well as false, and the
\* array is as it was.
C12_ArraysNeverGrow ==
    /\ pPc = "done" => SameLengths(pT, pTree, pRes.container)
    /\ NamesIndexOutOfBounds =>
        /\ ~pRes.found
        /\ pRes.invoked = 0
        /\ pRes.container = TreeWalked

\* insert_keys is set and the index equals the length of a non-empty array
C12_Witness ==
    /\ NamesIndexOutOfBounds
    /\ pInsert
    /\ pT = TStruct("holder")
    /\ pPath = "v/1"
    /\ Len(pTree.v) = 1
    /\ ~pRes.found
    /\ pRes.container.v = pTree.v

\* C13: a non-empty path text that begins with '/', ends with '/' or
\* contains "//" (a path with an empty segment) gives the result false
\* without a call of the visitor, whatever the nodes along the path are.
C13_EmptySegmentNeverResolves ==
    (pPc = "done" /\ pPath # "" /\ ~WellFormed(pPath)) =>
        (~pRes.found /\ pRes.invoked = 0)

(***************************************************************************)
(* Tree traversal (for_each.hpp) and reverse lookup (path_to.hpp)          *)
(***************************************************************************)
\* the characters of keys and paths in the order of their codes
Ascii == " +-/0123456789ABCDEFGHIJKLMNOPQRSTUVWXYZ_abcdefghijklmnopqrstuvwxyz~"

char_code(ch) == CHOOSE n \in 1..Len(Ascii) : SubSeq(Ascii, n, n) = ch

\* std::less<std::string>: lexicographic by character
RECURSIVE string_less(_, _)
string_less(a, b) ==
    IF b = "" THEN FALSE
    ELSE IF a = "" THEN TRUE
    ELSE IF Head(a) # Head(b) THEN char_code(Head(a)) < char_code(Head(b))
    ELSE string_less(Tail(a), Tail(b))

\* the keys of a std::map<std::string, ...> in iteration order
RECURSIVE SortedStrings(_)
SortedStrings(S) ==
    IF S = {} THEN <<>>
    ELSE LET first == CHOOSE a \in S : \A b \in S \ {a} : string_less(a, b)
         IN  <<first>> \o SortedStrings(S \ {first})

\* the keys of a map in iteration order
map_keys(T, container) ==
    IF is_convertible_map_t(T) THEN SortedStrings(DOMAIN container)
    ELSE SortedKeys(DOMAIN container)

\* fmt::format("{}", n) for an integer
RECURSIVE format_int(_)
format_int(n) ==
    IF n < 0 THEN "-" \o format_int(0 - n)
    ELSE IF n < 10 THEN Digits[n + 1]
    ELSE format_int(n \div 10) \o Digits[(n % 10) + 1]

\* fmt::format("{}", key) for a key of the map type T
format_key(T, key) == IF is_convertible_map_t(T) THEN key ELSE format_int(key)

\* fmt::format("{}{}{}", path, path.empty() ? "" : "/", key)
join_path(path, key) == path \o (IF path = "" THEN "" ELSE "/") \o key

\* enum traversal, one-hot
LEAF == {"LEAF"}
NON_LEAF == {"NON_LEAF"}
ALL == LEAF \cup NON_LEAF

\* func(path, node): one call, with the place of the node in the tree
Call(path, at, T, node) == <<[path |-> path, at |-> at, T |-> T, node |-> node]>>

\* for_each: the calls of func in the order they are made
RECURSIVE for_each(_, _, _, _, _)

RECURSIVE for_each_array_loop(_, _, _, _, _, _)
for_each_array_loop(Traversal, T, container, path, at, index) ==
    IF index >= Len(container) THEN <<>>
    ELSE for_each(Traversal, T[2], container[index + 1],
                  join_path(path, format_int(index)), Append(at, index))
            \o for_each_array_loop(Traversal, T, container, path, at, index + 1)

for_each_array(Traversal, T, container, path, at) ==
    (IF NON_LEAF \subseteq Traversal THEN Call(path, at, T, container) ELSE <<>>)
        \o for_each_array_loop(Traversal, T, container, path, at, 0)

RECURSIVE for_each_map_loop(_, _, _, _, _, _)
for_each_map_loop(Traversal, T, container, path, at, keys) ==
    IF keys = <<>> THEN <<>>
    ELSE for_each(Traversal, T[2], container[Head(keys)],
                  join_path(path, format_key(T, Head(keys))), Append(at, Head(keys)))
            \o for_each_map_loop(Traversal, T, container, path, at, Tail(keys))

for_each_map(Traversal, T, container, path, at) ==
    (IF NON_LEAF \subseteq Traversal THEN Call(path, at, T, container) ELSE <<>>)
        \o for_each_map_loop(Traversal, T, container, path, at, map_keys(T, container))

RECURSIVE for_each_visitable_loop(_, _, _, _, _, _)
for_each_visitable_loop(Traversal, T, container, path, at, n) ==
    IF n > Len(Members(T[2])) THEN <<>>
    ELSE LET key == Members(T[2])[n]
         IN  for_each(Traversal, MemberType(T[2], key), container[key],
                      join_path(path, key), Append(at, key))
                \o for_each_visitable_loop(Traversal, T, container, path, at, n + 1)

for_each_visitable(Traversal, T, container, path, at) ==
    (IF NON_LEAF \subseteq Traversal THEN Call(path, at, T, container) ELSE <<>>)
        \o for_each_visitable_loop(Traversal, T, container, path, at, 1)

for_each_not_container(Traversal, T, value, path, at) ==
    IF LEAF \subseteq Traversal THEN Call(path, at, T, value) ELSE <<>>

for_each(Traversal, T, container, path, at) ==
    IF is_array_t(T) THEN for_each_array(Traversal, T, container, path, at)
    ELSE IF is_map_t(T) THEN for_each_map(Traversal, T, container, path, at)
    ELSE IF is_visitable_t(T) THEN for_each_visitable(Traversal, T, container, path, at)
    ELSE for_each_not_container(Traversal, T, container, path, at)

\* a reference to a node: its type and its address, which is its place in
\* the tree or a place outside of it
NodeRef(T, at) == [T |-> T, at |-> at]

\* a variable of the application that is not part of the tree
OutsideNode == NodeRef(TInt, <<"outside">>)

\* path_to: the path of the last node of the traversal that has the type
\* and the address of the given node
path_to(T, container, node) ==
    LET calls == for_each(ALL, T, container, "", <<>>)
        same == {n \in 1..Len(calls) : calls[n].T = node.T /\ calls[n].at = node.at}
    IN  IF same = {} THEN [has_value |-> FALSE, value |-> ""]
        ELSE [has_value |-> TRUE,
              value |-> calls[CHOOSE n \in same : \A o \in same : o <= n].path]

(***************************************************************************)
(* The D-Bus interface (dbus.hpp): Get, GetAll, Set, ValuesChanged         *)
(***************************************************************************)
RECURSIVE add(_, _, _, _, _)

\* values_builder::add_internal: values.emplace(path, j.dump()) when the
\* filter lets the path be read
add_internal(values, filter, path, T, member) ==
    IF ~allowed(filter, path, READ) THEN values
    ELSE map_emplace(values, path, Dump(serialize(JNull, T, member, FALSE).j))

\* values_builder::add for an array that pushes nothing
add_array_nothing(values, filter, path, T, container) == values

add_array(values, filter, path, T, container) ==
    add_internal(values, filter, path, T, container)

RECURSIVE add_map_loop(_, _, _, _, _, _)
add_map_loop(values, filter, path, T, container, keys) ==
    IF keys = <<>> THEN values
    ELSE add_map_loop(
            add(values, filter, join_path(path, format_key(T, Head(keys))),
                T[2], container[Head(keys)]),
            filter, path, T, container, Tail(keys))

add_map(values, filter, path, T, container) ==
    IF DOMAIN container = {} THEN add_internal(values, filter, path, T, container)
    ELSE add_map_loop(values, filter, path, T, container, map_keys(T, container))

RECURSIVE add_visitable_loop(_, _, _, _, _, _)
add_visitable_loop(values, filter, path, T, container, n) ==
    IF n > Len(Members(T[2])) THEN values
    ELSE LET key == Members(T[2])[n]
         IN  add_visitable_loop(
                add(values, filter, join_path(path, key),
                    MemberType(T[2], key), container[key]),
                filter, path, T, container, n + 1)

add_visitable(values, filter, path, T, container) ==
    add_visitable_loop(values, filter, path, T, container, 1)

add_leaf(values, filter, path, T, value) ==
    add_internal(values, filter, path, T, value)

\* values_builder::add: the map of values with the entries of one node
add(values, filter, path, T, node) ==
    IF is_array_t(T) THEN add_array(values, filter, path, T, node)
    ELSE IF is_map_t(T) THEN add_map(values, filter, path, T, node)
    ELSE IF is_visitable_t(T) THEN add_visitable(values, filter, path, T, node)
    ELSE add_leaf(values, filter, path, T, node)

\* what a method leaves behind: the root, the error it threw, the value it
\* returned, the values it returned or emitted, the calls of on_set_
Outcome(root_, error, val, values, calls, emitted) ==
    [root |-> root_, error |-> error, val |-> val, values |-> values,
     calls |-> calls, emitted |-> emitted]

\* the error of a method that called visit_path
error_of(r) ==
    IF r.threw # "none" THEN r.threw
    ELSE IF ~r.found THEN "ENOENT"
    ELSE "none"

\* the Get method
Get(T, root_, filter_, path) ==
    LET r == visit_path(T, root_, path,
                        [kind |-> "Get", filter |-> filter_, path |-> path], FALSE)
    IN  Outcome(r.container, error_of(r),
                IF error_of(r) = "none" THEN r.out.val ELSE Absent,
                EmptyMap, <<>>, FALSE)

\* the GetAll method
GetAll(T, root_, filter_) ==
    Outcome(root_, "none", Absent, add(EmptyMap, filter_, "", T, root_), <<>>, FALSE)

\* the Set method
Set(T, root_, filter_, on_set_, path, val) ==
    LET r == visit_path(T, root_, path,
                        [kind |-> "Set", filter |-> filter_, path |-> path,
                         val |-> val, on_set |-> on_set_], TRUE)
    IN  Outcome(r.container, error_of(r), Absent, EmptyMap, r.out.calls, FALSE)

\* the value of the node behind a reference into the tree
node_value(T, root_, node) ==
    LET calls == for_each(ALL, T, root_, "", <<>>)
    IN  calls[CHOOSE n \in 1..Len(calls) :
                calls[n].T = node.T /\ calls[n].at = node.at].node

\* add_node for each node of the parameter pack, until one throws
RECURSIVE add_nodes(_, _, _, _, _)
add_nodes(values, T, root_, filter_, nodes) ==
    IF nodes = <<>> THEN [values |-> values, error |-> "none"]
    ELSE LET path == path_to(T, root_, Head(nodes))
         IN  IF ~path.has_value THEN [values |-> values, error |-> "invalid_argument"]
             ELSE add_nodes(add(values, filter_, path.value, Head(nodes).T,
                                node_value(T, root_, Head(nodes))),
                            T, root_, filter_, Tail(nodes))

\* emit_values_changed that emits what was collected before a missing node
emit_values_changed_partial(T, root_, filter_, nodes) ==
    LET r == add_nodes(EmptyMap, T, root_, filter_, nodes)
    IN  Outcome(root_, r.error, Absent, r.values, <<>>, DOMAIN r.values # {})

\* emit_values_changed: the signal is emitted when no node was missing and
\* the values are not empty
emit_values_changed(T, root_, filter_, nodes) ==
    LET r == add_nodes(EmptyMap, T, root_, filter_, nodes)
    IN  Outcome(root_, r.error, Absent,
                IF r.error = "none" THEN r.values ELSE EmptyMap, <<>>,
                r.error = "none" /\ DOMAIN r.values # {})

(***************************************************************************)
(* Interface runs: one method call on a tree behind the D-Bus interface    *)
(***************************************************************************)
\* longest path text that is enumerated as an argument of Get and Set
MaxBridgePathLen == 3

BridgeTypes ==
    {TStruct("visitable"), TStruct("holder"), TArray(TStruct("item")),
     TMap(TStruct("item")), TMap(TArray(TInt)), TIntMap(TMap(TInt))}

\* the trees behind the interface: the defaults, changed values, and maps
\* that are empty
BridgeTrees(T) ==
    {ValueInit(T), Changed(T)} \cup
        (IF T = TStruct("visitable") THEN {[b |-> FALSE, i |-> 99, m |-> EmptyMap]}
         ELSE IF T = TIntMap(TMap(TInt)) THEN {1 :> EmptyMap @@ 3 :> [k \in {"x"} |-> 11]}
         ELSE IF T = TMap(TArray(TInt)) THEN {[k \in {"x"} |-> <<>>]}
         ELSE {})

BridgePaths(T) == TextsUpTo({"/"} \cup SegmentChars(T), MaxBridgePathLen)

\* the texts a caller of Set sends: one that does not parse, and documents
SetTexts ==
    {Corrupt} \cup {Dump(j) : j \in {JInt(11), JStr("foo"), JObj(EmptyMap),
                                     JArr(<<JInt(11)>>)}}

\* the first segment of some path into a T
FirstSegment(T) ==
    IF is_array_t(T) THEN "0"
    ELSE IF is_convertible_map_t(T) THEN "z"
    ELSE IF is_not_convertible_map_t(T) THEN "3"
    ELSE Members(T[2])[Len(Members(T[2]))]

\* no filter, or one that refuses reading or writing everywhere or below
\* one first segment
Filters(T) ==
    {NoFilter} \cup {Deny(access, prefix) : access \in {READ, WRITE},
                                            prefix \in {"", FirstSegment(T)}}

\* the nodes the application may name: every node of the tree and a
\* variable outside of it
Nodes(T, root_) ==
    LET calls == for_each(ALL, T, root_, "", <<>>)
    IN  {NodeRef(calls[n].T, calls[n].at) : n \in 1..Len(calls)} \cup {OutsideNode}

InitBridge ==
    /\ bT \in BridgeTypes
    /\ bRoot \in BridgeTrees(bT)
    /\ bBefore = bRoot
    /\ bFilter \in Filters(bT)
    /\ bOnSet = FALSE
    /\ bCall = NoCall
    /\ bOut = NoCall
    /\ bPc = "ready"
    /\ CodecIdle
    /\ StoreIdle
    /\ PathIdle
    /\ StreamIdle
    /\ WalkIdle

\* what every method call leaves behind
Called(call, outcome) ==
    /\ bCall' = call
    /\ bOut' = outcome
    /\ bRoot' = bOut'.root
    /\ bBefore' = bRoot
    /\ bPc' = "done"
    /\ UNCHANGED <<bT, bFilter, bOnSet>>
    /\ UNCHANGED <<cvars, svars, pvars, fvars, wvars>>

\* dbus::on_set(callback)
OnSet ==
    /\ bPc = "ready"
    /\ ~bOnSet
    /\ bOnSet' = TRUE
    /\ UNCHANGED <<bT, bRoot, bBefore, bFilter, bCall, bOut, bPc>>
    /\ UNCHANGED <<cvars, svars, pvars, fvars, wvars>>

CallGet ==
    /\ bPc = "ready"
    /\ \E path \in BridgePaths(bT) :
        Called([op |-> "Get", path |-> path], Get(bT, bRoot, bFilter, path))

CallGetAll ==
    /\ bPc = "ready"
    /\ Called([op |-> "GetAll"], GetAll(bT, bRoot, bFilter))

CallSet ==
    /\ bPc = "ready"
    /\ \E path \in BridgePaths(bT), val \in SetTexts :
        Called([op |-> "Set", path |-> path, val |-> val],
               Set(bT, bRoot, bFilter, bOnSet, path, val))

EmitValuesChanged ==
    /\ bPc = "ready"
    /\ \E first \in Nodes(bT, bRoot), second \in Nodes(bT, bRoot) :
        \E nodes \in {<<first>>, <<first, second>>} :
            Called([op |-> "emit_values_changed", nodes |-> nodes],
                   emit_values_changed(bT, bRoot, bFilter, nodes))

NextBridge == OnSet \/ CallGet \/ CallGetAll \/ CallSet \/ EmitValuesChanged

SpecBridge == InitBridge /\ [][NextBridge]_vars

(***************************************************************************)
(* Properties of the D-Bus interface                                       *)
(***************************************************************************)
\* C14: a Set that the access filter refuses reports the access error and
\* leaves the whole tree as it was before the call: no value is changed
\* and no key is added to a map, also when the path names keys that the
\* maps did not have.
C14_VetoedSetLeavesTreeUnchanged ==
    (bPc = "done" /\ bCall.op = "Set" /\ bOut.error = "EACCES") =>
        bRoot = bBefore

\* C15: a Set whose text does not parse (and that no filter refuses)
\* reports the invalid-argument error, whether or not the path resolves,
\* and leaves the whole tree as it was before the call.
C15_UnparsableSetIsInvalidArgument ==
    (/\ bPc = "done"
     /\ bCall.op = "Set"
     /\ ~parses(bCall.val)
     /\ allowed(bFilter, bCall.path, WRITE)) =>
        (bOut.error = "EINVAL" /\ bRoot = bBefore)

\* the full encoding of a node (omit_defaults = false) as text
FullText(T, node) == Dump(serialize(JNull, T, node, FALSE).j)

\* the entries that the collection policy pushes for a node: none for a
\* struct itself and for a non-empty map itself, one for an empty map, one
\* for an array as a whole, one for a leaf; an empty map is pushed as an
\* empty object or as its encoding
RECURSIVE Pushed(_, _, _, _)
Pushed(T, node, path, empty_as) ==
    IF is_visitable_t(T) THEN
        UNION {Pushed(MemberType(T[2], key), node[key], join_path(path, key), empty_as) :
                  key \in MemberSet(T)}
    ELSE IF is_map_t(T) /\ DOMAIN node # {} THEN
        UNION {Pushed(T[2], node[key], join_path(path, format_key(T, key)), empty_as) :
                  key \in DOMAIN node}
    ELSE IF is_map_t(T) /\ empty_as = "object" THEN {<<path, Dump(JObj(EmptyMap))>>}
    ELSE {<<path, FullText(T, node)>>}

\* the entries whose path the filter lets be read, as a map from path to
\* text
Readable(entries, filter) ==
    LET kept == {e \in entries : allowed(filter, e[1], READ)}
    IN  [path \in {e[1] : e \in kept} |-> (CHOOSE e \in kept : e[1] = path)[2]]

GetAllReturned == bPc = "done" /\ bCall.op = "GetAll"

AtOrBelow(p, q) == q = p \/ p = "" \/ starts_with(q, p \o "/")

\* the paths of the nodes that were handed to emit_values_changed
NodePaths ==
    {path_to(bT, bRoot, bCall.nodes[n]).value : n \in 1..Len(bCall.nodes)}

\* emit_values_changed has returned without an exception
Emitted == bPc = "done" /\ bCall.op = "emit_values_changed" /\ bOut.error = "none"

\* C17: for every list of nodes of the tree the values of the change
\* notification are the entries that GetAll returns (same tree, same
\* filter) at or below the paths of the given nodes; no entry has a path
\* with an array index in it.
C17_EmittedValuesAreGetAllEntries ==
    Emitted =>
        LET all == GetAll(bT, bRoot, bFilter).values
            below == {q \in DOMAIN all : \E p \in NodePaths : AtOrBelow(p, q)}
        IN  bOut.values = [q \in below |-> all[q]]

\* the Set method has returned or thrown
SetReturned == bPc = "done" /\ bCall.op = "Set"

\* C18: with a callback registered by on_set, a Set that succeeds calls it
\* exactly once, with the path of the request, when the member already
\* holds the decoded value (the value that is in the tree when Set
\* returns); a Set that throws ENOENT, EACCES or EINVAL never calls it.
C18_OnSetOncePerSuccessfulSet ==
    (SetReturned /\ bOnSet) =>
        IF bOut.error = "none"
        THEN LET target == visit_path(bT, bBefore, bCall.path, CountVisitor, TRUE).out
                 now == visit_path(bT, bRoot, bCall.path, CountVisitor, FALSE).out
             IN  /\ Len(bOut.calls) = 1
                 /\ bOut.calls[1].path = bCall.path
                 /\ bOut.calls[1].member
                        = deserialize(parse(bCall.val), target.T, target.node).value
                 /\ bOut.calls[1].member = now.node
        ELSE /\ bOut.error \in {"ENOENT", "EACCES", "EINVAL"}
             /\ bOut.calls = <<>>

\* a Set that succeeded and changed the tree, with a callback registered
C18_Witness ==
    /\ SetReturned
    /\ bOnSet
    /\ bOut.error = "none"
    /\ bRoot # bBefore
    /\ Len(bOut.calls) = 1
    /\ bOut.calls[1].path = bCall.path

(***************************************************************************)
(* save() when creating, writing or flushing the temporary file fails      *)
(***************************************************************************)
\* what an earlier save() that stopped after creating temp_path left there
StaleTemps == {Absent, EmptyFile}

\* a tree with any content on a backing file with any content, before save()
InitFault ==
    /\ CodecIdle
    /\ PathIdle
    /\ BridgeIdle
    /\ StreamIdle
    /\ WalkIdle
    /\ rootT \in RootTypes
    /\ fs \in {f \in [Paths -> FileContents(rootT) \cup StaleTemps] :
                  f[path_] \in FileContents(rootT) /\ f[temp_path] \in StaleTemps}
    /\ root \in ValuesOf(rootT)
    /\ pc = "idle"
    /\ out = JNull
    /\ prior = fs[path_]
    /\ fsOps = {}
    /\ lastOp = "mutate"
    /\ prevOp = "other"
    /\ threw = FALSE
    /\ rootBefore = root
    /\ loaded = FALSE
    /\ seen = NotSeen

\* save() is called once
SaveOnce ==
    /\ lastOp # "save"
    /\ SaveBegin

\* stdio_fstream file(temp_path, std::ios_base::out): ::open succeeds, the
\* file is created or truncated
StreamOpen ==
    /\ pc = "open"
    /\ fs' = [fs EXCEPT ![temp_path] = EmptyFile]
    /\ fsOps' = fsOps \cup {"create"}
    /\ is_open' = TRUE
    /\ failbit' = FALSE
    /\ pc' = "write"
    /\ UNCHANGED <<rootT, root, out, prior, lastOp, prevOp, threw, rootBefore, loaded, seen, fault>>
    /\ UNCHANGED <<cvars, pvars, bvars, wvars>>

\* stdio_fstream file(temp_path, std::ios_base::out): ::open returns -1,
\* open() sets failbit and returns
StreamOpenFails ==
    /\ pc = "open"
    /\ failbit' = TRUE
    /\ is_open' = FALSE
    /\ fault' = "open"
    /\ pc' = "write"
    /\ UNCHANGED <<rootT, root, fs, out, prior, fsOps, lastOp, prevOp, threw, rootBefore, loaded, seen>>
    /\ UNCHANGED <<cvars, pvars, bvars, wvars>>

\* file << out: a stream that has failed writes nothing, another one writes
\* the whole text
StreamInsert ==
    /\ pc = "write"
    /\ IF failbit
       THEN UNCHANGED <<fs, fsOps>>
       ELSE /\ fs' = [fs EXCEPT ![temp_path] = Dump(out)]
            /\ fsOps' = fsOps \cup {"write"}
    /\ pc' = "fsync"
    /\ UNCHANGED <<rootT, root, out, prior, lastOp, prevOp, threw, rootBefore, loaded, seen>>
    /\ UNCHANGED <<cvars, pvars, bvars, fvars, wvars>>

\* file << out: a write fails after none or a part of the text has reached
\* the file, the stream's state records it and nothing is thrown
StreamInsertFails ==
    /\ pc = "write"
    /\ ~failbit
    /\ \E written \in {EmptyFile, Prefix(out)} : fs' = [fs EXCEPT ![temp_path] = written]
    /\ fsOps' = fsOps \cup {"write"}
    /\ failbit' = TRUE
    /\ fault' = "write"
    /\ pc' = "fsync"
    /\ UNCHANGED <<rootT, root, out, prior, lastOp, prevOp, threw, rootBefore, loaded, seen, is_open>>
    /\ UNCHANGED <<cvars, pvars, bvars, wvars>>

\* file.fsync(): nothing to do for a stream that is not open
StreamFsync ==
    /\ pc = "fsync"
    /\ pc' = "close"
    /\ UNCHANGED <<rootT, root, fs, out, prior, fsOps, lastOp, prevOp, threw, rootBefore, loaded, seen>>
    /\ UNCHANGED <<cvars, pvars, bvars, fvars, wvars>>

\* file.fsync(): ::fsync returns -1, fsync() sets failbit
StreamFsyncFails ==
    /\ pc = "fsync"
    /\ is_open
    /\ failbit' = TRUE
    /\ fault' = IF fault = "none" THEN "fsync" ELSE fault
    /\ pc' = "close"
    /\ UNCHANGED <<rootT, root, fs, out, prior, fsOps, lastOp, prevOp, threw, rootBefore, loaded, seen, is_open>>
    /\ UNCHANGED <<cvars, pvars, bvars, wvars>>

\* file.close(): sets failbit when the stream is not open
StreamClose ==
    /\ pc = "close"
    /\ is_open' = FALSE
    /\ failbit' = (failbit \/ ~is_open)
    /\ pc' = "rename"
    /\ UNCHANGED <<rootT, root, fs, out, prior, fsOps, lastOp, prevOp, threw, rootBefore, loaded, seen, fault>>
    /\ UNCHANGED <<cvars, pvars, bvars, wvars>>

\* std::filesystem::rename(temp_path, path_): throws when there is no file at
\* temp_path; then save() returns or the exception leaves it
StreamRename ==
    /\ pc = "rename"
    /\ IF exists(fs[temp_path])
       THEN /\ fs' = rename(fs, temp_path, path_)
            /\ fsOps' = fsOps \cup {"rename"}
            /\ threw' = FALSE
       ELSE /\ UNCHANGED <<fs, fsOps>>
            /\ threw' = TRUE
    /\ pc' = "idle"
    /\ lastOp' = "save"
    /\ prevOp' = Previous(lastOp)
    /\ UNCHANGED <<rootT, root, out, prior, rootBefore, loaded, seen>>
    /\ UNCHANGED <<cvars, pvars, bvars, fvars, wvars>>

NextFault ==
    \/ SaveOnce
    \/ StreamOpen \/ StreamOpenFails
    \/ StreamInsert \/ StreamInsertFails
    \/ StreamFsync \/ StreamFsyncFails
    \/ StreamClose \/ StreamRename

SpecFault == InitFault /\ [][NextFault]_vars

\* save() has returned or thrown
SaveReturned == pc = "idle" /\ lastOp = "save"

\* C19: when creating, writing or flushing the temporary file fails during
\* save(), save() reports a failure to its caller and the backing path still
\* holds the complete prior document.
C19_FailedSaveKeepsPriorDocument ==
    (SaveReturned /\ fault # "none") => (threw /\ fs[path_] = prior)

\* load() has returned and there is no backing file
LoadedWithoutFile == lastOp = "load" /\ pc = "idle" /\ ~exists(fs[path_])

\* C20: when no backing file exists, load() returns without error and the
\* root is in its default-valued state afterwards, whatever the in-memory
\* state before the call.
C20_LoadWithoutFileGivesDefaults ==
    LoadedWithoutFile => (~threw /\ root = ValueInit(rootT))

(***************************************************************************)
(* Properties of save() and load() on whole documents                      *)
(***************************************************************************)
\* save() has returned normally
Saved == lastOp = "save" /\ pc = "idle" /\ ~threw

\* the root holds what a value-initialised Root holds
RootIsDefault == root = ValueInit(rootT)

\* the keys of the prior document that the root struct does not declare
UnknownKeys ==
    IF is_visitable_t(rootT) /\ parses(prior) /\ is_object(parse(prior))
    THEN (DOMAIN parse(prior)[2]) \ MemberSet(rootT)
    ELSE {}

\* C21 as stated: after save() returns while the root is entirely at its
\* defaults, no file exists at the backing path, whatever document the file
\* held before the call.
C21_DefaultRootLeavesNoFile ==
    (Saved /\ RootIsDefault) => fs[path_] = Absent

\* C21 amended: after save() returns while the root is entirely at its
\* defaults, the backing path holds no file when the prior document had no key
\* other than the root struct's members, and otherwise holds exactly the
\* object of those other keys with their prior values.
C21_DefaultRootLeavesOnlyUnknownKeys ==
    (Saved /\ RootIsDefault)
        => IF UnknownKeys = {} THEN fs[path_] = Absent
           ELSE fs[path_] = Dump(JObj([k \in UnknownKeys |-> parse(prior)[2][k]]))

C21_Witness ==
    /\ Saved /\ RootIsDefault /\ is_visitable_t(rootT)
    /\ parses(prior) /\ is_object(parse(prior))
    /\ \E k \in MemberSet(rootT) : json_contains(parse(prior), k)
    /\ UnknownKeys = {}
    /\ fs[path_] = Absent

\* save() has ended on a backing file that existed and did not parse
SavedOverUnparsable == lastOp = "save" /\ pc = "idle" /\ exists(prior) /\ ~parses(prior)

\* C22: save() on a store whose existing backing file is unparsable does not
\* fail because of it: afterwards the backing file holds exactly the root's
\* default-omitted encoding, or is absent when that encoding is empty.
C22_UnparsableFileIsTreatedAsEmpty ==
    SavedOverUnparsable
        => LET encoding == serialize(JNull, rootT, root, TRUE).j
           IN  /\ ~threw
               /\ IF json_empty(encoding) THEN fs[path_] = Absent
                  ELSE fs[path_] = Dump(encoding)

C22_Witness ==
    /\ SavedOverUnparsable /\ prior = Corrupt
    /\ ~RootIsDefault
    /\ "rename" \in fsOps
    /\ fs[path_] = Dump(serialize(JNull, rootT, root, TRUE).j)

(***************************************************************************)
(* for_each runs: one traversal of a tree in one mode                      *)
(***************************************************************************)
WalkTypes ==
    {TInt, TStruct("visitable"), TStruct("holder"), TArray(TStruct("item")),
     TMap(TStruct("item")), TIntMap(TMap(TInt))}

\* trees whose top-level map has the empty string among its keys
EmptyKeyTrees(T) ==
    IF is_convertible_map_t(T)
    THEN {[k \in {""} |-> Changed(T[2])], [k \in {"", "x"} |-> Changed(T[2])]}
    ELSE {}

WalkTrees(T) == ValuesOf(T) \cup EmptyKeyTrees(T)

Traversals == {LEAF, NON_LEAF, ALL}

InitWalk ==
    /\ CodecIdle
    /\ StoreIdle
    /\ PathIdle
    /\ BridgeIdle
    /\ StreamIdle
    /\ wT \in WalkTypes
    /\ wTree \in WalkTrees(wT)
    /\ wMode = {}
    /\ wCalls = <<>>
    /\ wPc = "start"

\* for_each<Traversal>(container, func) with a func that records its calls
Walk ==
    /\ wPc = "start"
    /\ \E Traversal \in Traversals :
          /\ wMode' = Traversal
          /\ wCalls' = for_each(Traversal, wT, wTree, "", <<>>)
    /\ wPc' = "done"
    /\ UNCHANGED <<wT, wTree>>
    /\ UNCHANGED <<cvars, svars, pvars, bvars, fvars>>

NextWalk == Walk

SpecWalk == InitWalk /\ [][NextWalk]_vars

\* the children of a node in the container's iteration order, each with the
\* text of its segment
ChildrenOf(T, value) ==
    IF is_array_t(T) THEN
        [n \in 1..Len(value) |-> [seg |-> format_int(n - 1), T |-> T[2], node |-> value[n]]]
    ELSE IF is_map_t(T) THEN
        LET keys == map_keys(T, value)
        IN  [n \in 1..Len(keys) |->
                [seg |-> format_key(T, keys[n]), T |-> T[2], node |-> value[keys[n]]]]
    ELSE IF is_visitable_t(T) THEN
        [n \in 1..Len(Members(T[2])) |->
            [seg |-> Members(T[2])[n], T |-> MemberType(T[2], Members(T[2])[n]),
             node |-> value[Members(T[2])[n]]]]
    ELSE <<>>

\* the segments joined with '/', the empty path for no segments
RECURSIVE JoinSegments(_)
JoinSegments(segs) ==
    IF segs = <<>> THEN ""
    ELSE IF Len(segs) = 1 THEN segs[1]
    ELSE segs[1] \o "/" \o JoinSegments(Tail(segs))

\* every node of the tree, a container before its descendants
RECURSIVE Preorder(_, _, _)
RECURSIVE PreorderOfChildren(_, _, _)
PreorderOfChildren(children, segs, n) ==
    IF n > Len(children) THEN <<>>
    ELSE Preorder(children[n].T, children[n].node, Append(segs, children[n].seg))
            \o PreorderOfChildren(children, segs, n + 1)

Preorder(T, value, segs) ==
    <<[path |-> JoinSegments(segs), T |-> T, node |-> value]>>
        \o PreorderOfChildren(ChildrenOf(T, value), segs, 1)

IsScalarEntry(e) == is_leaf_t(e.T)
IsContainerEntry(e) == ~is_leaf_t(e.T)

\* the entries of the pre-order sequence that a mode yields
Expected(Traversal, T, value) ==
    LET all == Preorder(T, value, <<>>)
    IN  IF Traversal = ALL THEN all
        ELSE IF Traversal = LEAF THEN SelectSeq(all, IsScalarEntry)
        ELSE SelectSeq(all, IsContainerEntry)

\* the calls are the expected entries, in order
CallsAre(expected) ==
    /\ Len(wCalls) = Len(expected)
    /\ \A n \in 1..Len(expected) :
          /\ wCalls[n].path = expected[n].path
          /\ wCalls[n].T = expected[n].T
          /\ wCalls[n].node = expected[n].node

\* C23: walk in mode ALL invokes the visitor exactly once for every node of
\* the tree, a container before its descendants and children in iteration
\* order, with the path formed by joining the segments with '/' (the empty
\* path for the root); mode LEAVES yields exactly the scalar entries of that
\* sequence and mode CONTAINERS exactly the other entries, in the same order.
C23_WalkVisitsEveryNodeInOrder ==
    wPc = "done" => CallsAre(Expected(wMode, wT, wTree))

\* emit_values_changed has returned or thrown
EmitReturned == bPc = "done" /\ bCall.op = "emit_values_changed"

\* one of the given nodes is not part of the tree
NodeMissing == \E n \in 1..Len(bCall.nodes) : bCall.nodes[n] = OutsideNode

\* C24: a change-notification call emits at most one ValuesChanged event; if
\* any of the given nodes is not part of the tree the call raises an error and
\* emits no event at all, also not for the nodes listed before the missing
\* one; if the resulting mapping is empty no event is emitted.
C24_MissingNodeEmitsNothing ==
    EmitReturned =>
        /\ bOut.emitted \in BOOLEAN
        /\ NodeMissing => (bOut.error = "invalid_argument" /\ ~bOut.emitted)
        /\ ~NodeMissing => bOut.error = "none"
        /\ bOut.values = EmptyMap => ~bOut.emitted
        /\ bRoot = bBefore

C24_Witness ==
    /\ EmitReturned
    /\ Len(bCall.nodes) = 2
    /\ bCall.nodes[1] # OutsideNode
    /\ bCall.nodes[2] = OutsideNode
    /\ add_nodes(EmptyMap, bT, bBefore, bFilter, <<bCall.nodes[1]>>).values # EmptyMap
    /\ bOut.error = "invalid_argument"
    /\ ~bOut.emitted

\* the segments that are followed: a '/' at the end of the text ends the
\* last segment and is followed by the empty path
Steps(path) ==
    LET segs == Segments(path)
    IN  IF segs # <<>> /\ segs[Len(segs)] = "" THEN SubSeq(segs, 1, Len(segs) - 1)
        ELSE segs

\* C25: resolve returns found=true exactly when the visitor was invoked, and
\* then it was invoked exactly once, on the single node reached by following
\* the path segment by segment from the root (the empty path reaches the node
\* itself, at every category); when resolve returns found=false the visitor
\* was not invoked.
C25_FoundIffVisitedOnce ==
    pPc = "done" =>
        LET at == At(pT, TreeWalked, Steps(pPath))
        IN  /\ pRes.invoked \in {0, 1}
            /\ pRes.found <=> pRes.invoked = 1
            /\ pRes.found => /\ at.ok
                             /\ pRes.out.T = at.T
                             /\ pRes.out.node = at.node
            /\ ~pRes.found => pRes.out = NoCapture
            /\ (WellFormed(pPath) /\ at.ok) => pRes.found

C25_Witness ==
    /\ pPc = "done"
    /\ ~pInsert
    /\ pT = TStruct("holder")
    /\ pTree = Changed(pT)
    /\ pPath = "n/i"
    /\ pRes.found
    /\ pRes.invoked = 1
    /\ pRes.out.T = TInt
    /\ pRes.out.node = 11

(***************************************************************************)
(* Decode runs: one deserialize of a document, also one in which the       *)
(* shape of one child does not fit its node                                *)
(***************************************************************************)
\* the JSON type of the document is the one the node's deserialize accepts
Matches(T, j) ==
    IF is_array_t(T) \/ is_not_convertible_map_t(T) THEN is_array(j)
    ELSE IF is_convertible_map_t(T) \/ is_visitable_t(T) THEN is_object(j)
    ELSE from_json_ok(T, j)

Shapes == {JNull, JStr("xxx"), JInt(11), JArr(<<>>), JObj(EmptyMap)}

Mismatching(T) == {j \in Shapes : ~Matches(T, j)}

\* the documents that differ from j in one child, which does not fit its node
DamagedDocuments(T, j) ==
    IF is_array_t(T) THEN
        {JArr([j[2] EXCEPT ![n] = bad]) : n \in 1..Len(j[2]), bad \in Mismatching(T[2])}
    ELSE IF is_not_convertible_map_t(T) THEN
        {JArr([j[2] EXCEPT ![n] = JArr(<<j[2][n][2][1], bad>>)]) :
            n \in 1..Len(j[2]), bad \in Mismatching(T[2])}
    ELSE IF is_convertible_map_t(T) THEN
        {JObj([j[2] EXCEPT ![k] = bad]) : k \in DOMAIN j[2], bad \in Mismatching(T[2])}
    ELSE UNION {{JObj([j[2] EXCEPT ![k] = bad]) : bad \in Mismatching(MemberType(T[2], k))} :
                    k \in DOMAIN j[2]}

DecodeDocuments(T) ==
    LET whole == {serialize(JNull, T, v, FALSE).j : v \in ValuesOf(T)}
    IN  whole \cup UNION {DamagedDocuments(T, j) : j \in whole}

InitDecode ==
    /\ cT \in AllTypes
    /\ cJ \in DecodeDocuments(cT)
    /\ cTgt \in {ValueInit(cT), Changed(cT)}
    /\ cC = ValueInit(cT)
    /\ cBase = cJ
    /\ cOmit = FALSE
    /\ cRet = FALSE
    /\ cOut = cTgt
    /\ cDRet = FALSE
    /\ cPc = "document"
    /\ StoreIdle
    /\ PathIdle
    /\ BridgeIdle
    /\ StreamIdle
    /\ WalkIdle

\* deserialize(j, container, on_error)
DecodeDocument ==
    /\ cPc = "document"
    /\ LET r == deserialize(cJ, cT, cTgt)
       IN  cOut' = r.value /\ cDRet' = r.ret
    /\ cPc' = "read"
    /\ UNCHANGED <<cT, cC, cBase, cOmit, cJ, cRet, cTgt>>
    /\ UNCHANGED <<svars, pvars, bvars, fvars, wvars>>

NextDecode == DecodeDocument

SpecDecode == InitDecode /\ [][NextDecode]_vars

\* what a child holds after the decode: its document value when the shape
\* fits, and otherwise what it held before
DecodedChild(T, j, start) ==
    IF Matches(T, j) THEN deserialize(j, T, start).value ELSE start

\* C26: when a document is decoded in which a Record field, Sequence element
\* or Association value has a shape that does not match its node, every other
\* field, element and entry is still decoded to its document value and the
\* enclosing decode reports success; the mismatched Record field keeps its
\* current value, and a mismatched Sequence element or Association value is
\* still present in the container, holding the default value.
C26_MismatchedChildDoesNotAbort ==
    (cPc = "read" /\ Matches(cT, cJ)) =>
        /\ cDRet
        /\ IF is_visitable_t(cT) THEN
               \A key \in MemberSet(cT) :
                   cOut[key] = IF json_contains(cJ, key)
                               THEN DecodedChild(MemberType(cT[2], key), cJ[2][key], cTgt[key])
                               ELSE Defaults(cT[2])[key]
           ELSE IF is_array_t(cT) THEN
               /\ Len(cOut) = Len(cJ[2])
               /\ \A n \in 1..Len(cJ[2]) :
                     cOut[n] = DecodedChild(cT[2], cJ[2][n], ValueInit(cT[2]))
           ELSE IF is_convertible_map_t(cT) THEN
               /\ DOMAIN cOut = DOMAIN cJ[2]
               /\ \A k \in DOMAIN cJ[2] :
                     cOut[k] = DecodedChild(cT[2], cJ[2][k], ValueInit(cT[2]))
           ELSE /\ DOMAIN cOut = {cJ[2][n][2][1][2] : n \in 1..Len(cJ[2])}
                /\ \A n \in 1..Len(cJ[2]) :
                      cOut[cJ[2][n][2][1][2]]
                          = DecodedChild(cT[2], cJ[2][n][2][2], ValueInit(cT[2]))

\* the first of two elements does not fit and holds the default, the second
\* is decoded
C26_Witness ==
    /\ cPc = "read"
    /\ cT = TArray(TStruct("item"))
    /\ cTgt = Changed(cT)
    /\ Len(cJ[2]) = 2
    /\ ~Matches(cT[2], cJ[2][1])
    /\ cDRet
    /\ cOut = <<ItemDefaults, [i |-> 11]>>

\* C27: for every root value, after save() returns normally a load() of the
\* same path, into the same store or into a freshly constructed one, yields a
\* root equal to the root that was saved, also when an array or map member of
\* a root struct is empty while its default is not.
C27_SavedRootIsLoadedBack ==
    Saved =>
        /\ ~load(fs[path_], rootT, root).threw
        /\ load(fs[path_], rootT, root).root = root
        /\ construct(fs[path_], rootT) = root

(***************************************************************************)
(* Interface sessions: a successful Set, then GetAll and a Get of one of   *)
(* its entries, or a Get and a Set of the text it returned                 *)
(***************************************************************************)
\* objects with one key that is empty or has a '/' in it
OddKeyTexts ==
    {Dump(JObj([k \in {key} |-> v])) :
        key \in {"", "x/z"}, v \in {JInt(11), JObj([i |-> JInt(11)]), JArr(<<JInt(11)>>)}}

SessionTexts == SetTexts \cup OddKeyTexts

InitSession ==
    /\ bT \in BridgeTypes
    /\ bRoot \in BridgeTrees(bT)
    /\ bBefore = bRoot
    /\ bFilter = NoFilter
    /\ bOnSet = FALSE
    /\ bCall = NoCall
    /\ bOut = NoCall
    /\ bPc = "open"
    /\ CodecIdle
    /\ StoreIdle
    /\ PathIdle
    /\ StreamIdle
    /\ WalkIdle

\* a Set that succeeds
SessionSet ==
    /\ bPc = "open"
    /\ \E path \in BridgePaths(bT), val \in SessionTexts :
          LET outcome == Set(bT, bRoot, bFilter, bOnSet, path, val)
          IN  /\ outcome.error = "none"
              /\ bRoot' = outcome.root
    /\ bBefore' = bRoot
    /\ bCall' = [op |-> "Set"]
    /\ bOut' = NoCall
    /\ bPc' = "changed"
    /\ UNCHANGED <<bT, bFilter, bOnSet>>
    /\ UNCHANGED <<cvars, svars, pvars, fvars, wvars>>

SessionGetAll ==
    /\ bPc \in {"open", "changed"}
    /\ bCall' = [op |-> "GetAll"]
    /\ bOut' = GetAll(bT, bRoot, bFilter)
    /\ bPc' = "listed"
    /\ UNCHANGED <<bT, bRoot, bBefore, bFilter, bOnSet>>
    /\ UNCHANGED <<cvars, svars, pvars, fvars, wvars>>

\* Get of the path of one entry that GetAll returned
SessionGetListed ==
    /\ bPc = "listed"
    /\ \E path \in DOMAIN bOut.values :
          /\ bCall' = [op |-> "Get", path |-> path, listed |-> bOut.values[path]]
          /\ bOut' = Get(bT, bRoot, bFilter, path)
    /\ bPc' = "got"
    /\ UNCHANGED <<bT, bRoot, bBefore, bFilter, bOnSet>>
    /\ UNCHANGED <<cvars, svars, pvars, fvars, wvars>>

\* Get of any path
SessionGet ==
    /\ bPc \in {"open", "changed"}
    /\ \E path \in BridgePaths(bT) :
          /\ bCall' = [op |-> "Get", path |-> path]
          /\ bOut' = Get(bT, bRoot, bFilter, path)
    /\ bPc' = "read"
    /\ UNCHANGED <<bT, bRoot, bBefore, bFilter, bOnSet>>
    /\ UNCHANGED <<cvars, svars, pvars, fvars, wvars>>

\* Set of the text that the Get returned, on the same path
SessionSetBack ==
    /\ bPc = "read"
    /\ bOut.error = "none"
    /\ bCall' = [op |-> "Set", path |-> bCall.path, val |-> bOut.val]
    /\ bOut' = Set(bT, bRoot, bFilter, bOnSet, bCall.path, bOut.val)
    /\ bRoot' = bOut'.root
    /\ bBefore' = bRoot
    /\ bPc' = "written"
    /\ UNCHANGED <<bT, bFilter, bOnSet>>
    /\ UNCHANGED <<cvars, svars, pvars, fvars, wvars>>

NextSession ==
    SessionSet \/ SessionGetAll \/ SessionGetListed \/ SessionGet \/ SessionSetBack

SpecSession == InitSession /\ [][NextSession]_vars

\* C28: in every tree state reachable by successful Set operations (a Set
\* that replaces a whole map with arbitrary string keys included), every
\* entry (p, v) that GetAll returns corresponds to a node of the tree, and
\* Get(p) succeeds and returns exactly v.
C28_GetAllEntriesAreGettable ==
    bPc = "got" =>
        /\ At(bT, bRoot, Segments(bCall.path)).ok
        /\ bOut.error = "none"
        /\ bOut.val = bCall.listed

\* C29: for every tree state and every path p for which Get(p) succeeds,
\* Set(p, Get(p)) succeeds and leaves the whole tree equal to its state
\* before the call.
C29_SetOfGetChangesNothing ==
    bPc = "written" => (bOut.error = "none" /\ bRoot = bBefore)

\* the prior document had a key that no struct declares in the object of a
\* struct below the top level
PriorHadNestedUnknown ==
    LET plain == serialize(JNull, rootT, Changed(rootT), FALSE).j
    IN  /\ prior = Dump(WithNestedUnknown(rootT, plain))
        /\ prior # Dump(plain)

\* C30: after any save() that returns normally, the backing document contains
\* nothing below the top level that the encoding of the current root did not
\* produce: every member of a root struct, and a root of another category as
\* a whole, is exactly its default-omitted encoding, so a key that the prior
\* file held inside the object of a nested struct is no longer in the file.
C30_NothingUnknownBelowTopLevel ==
    (Saved /\ parses(fs[path_])) =>
        LET doc == parse(fs[path_])
        IN  IF is_visitable_t(rootT)
            THEN /\ is_object(doc)
                 /\ \A key \in (DOMAIN doc[2]) \cap MemberSet(rootT) :
                       doc[2][key] = serialize(JNull, MemberType(rootT[2], key),
                                               root[key], TRUE).j
            ELSE doc = serialize(JNull, rootT, root, TRUE).j

C30_Witness ==
    /\ Saved
    /\ PriorHadNestedUnknown
    /\ rootT = TStruct("holder")
    /\ root = Changed(rootT)
    /\ "rename" \in fsOps
    /\ parses(fs[path_])
    /\ parse(fs[path_])[2]["n"] = JObj([i |-> JInt(11)])

====
